---- MODULE Spec2Model ----
(***************************************************************************)
(* Weather-driven disease risk assessment for sugarcane                    *)
(* (backend/app/disease_risk.py): the additive Dead Heart and Tiller rule  *)
(* sets, the priority-based approximation rule set for Dead Heart, and the *)
(* two combination operations.                                             *)
(*                                                                         *)
(* Numbers are integers: every threshold of the rule sets is an integer    *)
(* and the readings are sampled on both sides of each threshold.  A mean   *)
(* is kept as the exact fraction num/den and compared by cross             *)
(* multiplication.  Formatted text (f-strings) is kept as the text of the  *)
(* rule without the interpolated number.                                   *)
(***************************************************************************)
EXTENDS Integers, Sequences, FiniteSets, TLC

VARIABLES
    weather_data,    \* argument of the scoring operations
    forecast_data,   \* argument of the forecast operations
    today,           \* datetime.now().date() as a day number
    arg,             \* argument of a direct call of a helper or a predictor method
    predictor,       \* the DiseasePredictor the request is served by
    env,             \* os.environ, as far as the predictor reads it
    clock,           \* time.time(), in seconds
    weather_service, \* the WeatherService: its cache_duration and its cache
    provider_requests, \* the requests the weather provider has received
    calls,           \* the frames of the calls in progress
    heap,            \* the list objects the scoring calls have created
    assessor,        \* disease_risk_assessor: its risk_thresholds
    predictions,     \* the predictions the predictors have run
    op,              \* the operation that returned last ("none" initially)
    result           \* what that operation returned

vars == <<weather_data, forecast_data, today, arg, predictor, env, clock, weather_service,
          provider_requests, calls, heap, assessor, predictions, op, result>>

----------------------------------------------------------------------------
(* Python built-ins *)

EmptyDict == [k \in {} |-> 0]

Get(d, key, default) == IF key \in DOMAIN d THEN d[key] ELSE default

Max(a, b) == IF a >= b THEN a ELSE b

Min(a, b) == IF a <= b THEN a ELSE b

Take(s, n) == SubSeq(s, 1, Min(n, Len(s)))

RECURSIVE Sum(_)
Sum(s) == IF s = <<>> THEN 0 ELSE Head(s) + Sum(Tail(s))

Column(s, key, default) == [i \in 1..Len(s) |-> Get(s[i], key, default)]

KeyError == [error |-> "KeyError"]

IsError(r) == "error" \in DOMAIN r

----------------------------------------------------------------------------
(* RiskLevel and the classification *)

RiskLevel == {"low", "medium", "high", "critical"}

risk_thresholds == [low |-> 25, medium |-> 50, high |-> 75, critical |-> 90]

_classify_risk_level_strict(risk_score) ==
    IF risk_score > risk_thresholds["critical"] THEN "critical"
    ELSE IF risk_score > risk_thresholds["high"] THEN "high"
    ELSE IF risk_score > risk_thresholds["medium"] THEN "medium"
    ELSE "low"

_classify_risk_level(risk_score) ==
    IF risk_score >= risk_thresholds["critical"] THEN "critical"
    ELSE IF risk_score >= risk_thresholds["high"] THEN "high"
    ELSE IF risk_score >= risk_thresholds["medium"] THEN "medium"
    ELSE "low"

_get_risk_color(risk_level) ==
    CASE risk_level = "low" -> "#4CAF50"
      [] risk_level = "medium" -> "#FF9800"
      [] risk_level = "high" -> "#FF5722"
      [] risk_level = "critical" -> "#F44336"

----------------------------------------------------------------------------
(* The running state of an additive rule set: risk_score, risk_factors and *)
(* recommendations as the three locals of the scoring functions.           *)

NoRisk == [risk_score |-> 0, risk_factors |-> <<>>, recommendations |-> <<>>]

Fire(acc, points, factor, recs) ==
    [risk_score |-> acc.risk_score + points,
     risk_factors |-> Append(acc.risk_factors, factor),
     recommendations |-> acc.recommendations \o recs]

Reduce(acc, points, factor, recs) ==
    [risk_score |-> Max(0, acc.risk_score - points),
     risk_factors |-> Append(acc.risk_factors, factor),
     recommendations |-> acc.recommendations \o recs]

RequiredFields ==
    {"temperature", "humidity", "rainfall_3h", "wind_speed", "weather_condition"}

HasRequired(wd) ==
    "current" \in DOMAIN wd /\ RequiredFields \subseteq DOMAIN wd["current"]

clamp_unbounded(risk_score) == Max(0, risk_score)

clamp(risk_score) == Min(100, Max(0, risk_score))

----------------------------------------------------------------------------
(* calculate_deadheart_risk *)

deadheart_temperature_open(acc, temperature) ==
    IF 25 <= temperature /\ temperature < 30
    THEN Fire(acc, 30, "Optimal temperature for disease development", <<>>)
    ELSE IF 20 <= temperature /\ temperature <= 35
    THEN Fire(acc, 15, "Moderate temperature risk", <<>>)
    ELSE acc

deadheart_temperature(acc, temperature) ==
    IF 25 <= temperature /\ temperature <= 30
    THEN Fire(acc, 30, "Optimal temperature for disease development", <<>>)
    ELSE IF 20 <= temperature /\ temperature <= 35
    THEN Fire(acc, 15, "Moderate temperature risk", <<>>)
    ELSE acc

deadheart_humidity(acc, humidity) ==
    IF humidity > 80
    THEN Fire(acc, 25, "High humidity level",
              <<"Monitor plants closely for early symptoms">>)
    ELSE IF humidity > 70
    THEN Fire(acc, 10, "Moderate humidity level", <<>>)
    ELSE acc

deadheart_rainfall(acc, rainfall_3h) ==
    IF rainfall_3h > 5
    THEN Fire(acc, 20, "Recent significant rainfall",
              <<"Check for waterlogged areas and improve drainage">>)
    ELSE IF rainfall_3h > 0
    THEN Fire(acc, 10, "Recent light rainfall", <<>>)
    ELSE acc

deadheart_wind(acc, wind_speed) ==
    IF wind_speed < 2
    THEN Fire(acc, 15, "Low wind speed - stagnant conditions", <<>>)
    ELSE IF wind_speed < 5
    THEN Fire(acc, 5, "Moderate wind speed", <<>>)
    ELSE acc

deadheart_condition(acc, weather_condition) ==
    IF weather_condition \in {"Rain", "Thunderstorm"}
    THEN Fire(acc, 15, "Wet weather conditions",
              <<"Avoid field activities until conditions improve">>)
    ELSE IF weather_condition \in {"Drizzle", "Mist"}
    THEN Fire(acc, 10, "Moist weather conditions", <<>>)
    ELSE acc

deadheart_combined(acc, temperature, humidity, rainfall_3h, wind_speed) ==
    LET a == IF humidity > 80 /\ 25 <= temperature /\ temperature <= 30
             THEN Fire(acc, 20,
                       "Critical combination: High humidity + optimal temperature",
                       <<"Apply preventive fungicide spray immediately">>)
             ELSE acc
    IN IF rainfall_3h > 5 /\ wind_speed < 2
       THEN Fire(a, 15,
                 "Critical combination: Recent rain + low wind (stagnant water)",
                 <<"Improve field drainage urgently">>)
       ELSE a

\* the factor is noted but nothing is subtracted
deadheart_dry_noted(acc, humidity, rainfall_3h, weather_condition) ==
    IF humidity < 60 /\ rainfall_3h = 0 /\ weather_condition \in {"Clear", "Sunny"}
    THEN Fire(acc, 0, "Dry conditions reduce disease risk",
              <<"Good conditions for field activities">>)
    ELSE acc

deadheart_dry(acc, humidity, rainfall_3h, weather_condition) ==
    IF humidity < 60 /\ rainfall_3h = 0 /\ weather_condition \in {"Clear", "Sunny"}
    THEN Reduce(acc, 20, "Dry conditions reduce disease risk",
                <<"Good conditions for field activities">>)
    ELSE acc

deadheart_level_recommendations_no_low(risk_level) ==
    IF risk_level = "critical"
    THEN <<"URGENT: Apply fungicide treatment immediately",
           "Inspect all plants for early symptoms",
           "Improve drainage in waterlogged areas">>
    ELSE IF risk_level = "high"
    THEN <<"Apply preventive fungicide spray",
           "Monitor plants daily for symptoms",
           "Ensure proper field drainage">>
    ELSE IF risk_level = "medium"
    THEN <<"Increase monitoring frequency",
           "Prepare fungicide for application if needed",
           "Check drainage systems">>
    ELSE <<>>

deadheart_level_recommendations(risk_level) ==
    IF risk_level = "critical"
    THEN <<"URGENT: Apply fungicide treatment immediately",
           "Inspect all plants for early symptoms",
           "Improve drainage in waterlogged areas">>
    ELSE IF risk_level = "high"
    THEN <<"Apply preventive fungicide spray",
           "Monitor plants daily for symptoms",
           "Ensure proper field drainage">>
    ELSE IF risk_level = "medium"
    THEN <<"Increase monitoring frequency",
           "Prepare fungicide for application if needed",
           "Check drainage systems">>
    ELSE <<"Continue regular monitoring",
           "Good time for field maintenance activities">>

calculate_deadheart_risk(wd) ==
    IF ~HasRequired(wd) THEN KeyError
    ELSE
    LET current == wd["current"]
        temperature == current["temperature"]
        humidity == current["humidity"]
        rainfall_3h == current["rainfall_3h"]
        wind_speed == current["wind_speed"]
        weather_condition == current["weather_condition"]
        a1 == deadheart_temperature(NoRisk, temperature)
        a2 == deadheart_humidity(a1, humidity)
        a3 == deadheart_rainfall(a2, rainfall_3h)
        a4 == deadheart_wind(a3, wind_speed)
        a5 == deadheart_condition(a4, weather_condition)
        a6 == deadheart_combined(a5, temperature, humidity, rainfall_3h, wind_speed)
        a7 == deadheart_dry(a6, humidity, rainfall_3h, weather_condition)
        risk_level == _classify_risk_level(a7.risk_score)
    IN [disease |-> "deadheart",
        risk_level |-> risk_level,
        risk_score |-> clamp(a7.risk_score),
        risk_color |-> _get_risk_color(risk_level),
        risk_factors |-> a7.risk_factors,
        recommendations |->
            a7.recommendations \o deadheart_level_recommendations(risk_level)]

----------------------------------------------------------------------------
(* calculate_tiller_risk *)

tiller_temperature(acc, temperature) ==
    IF 28 <= temperature /\ temperature <= 35
    THEN Fire(acc, 30, "Optimal temperature for disease development", <<>>)
    ELSE IF 25 <= temperature /\ temperature <= 38
    THEN Fire(acc, 15, "Moderate temperature risk", <<>>)
    ELSE acc

tiller_humidity(acc, humidity) ==
    IF humidity > 85
    THEN Fire(acc, 30, "Very high humidity level",
              <<"Critical humidity - monitor plants hourly">>)
    ELSE IF humidity > 75
    THEN Fire(acc, 15, "High humidity level",
              <<"Increase plant monitoring frequency">>)
    ELSE acc

tiller_rainfall(acc, rainfall_3h) ==
    IF rainfall_3h > 10
    THEN Fire(acc, 25, "Heavy rainfall",
              <<"Check for waterlogged areas immediately">>)
    ELSE IF rainfall_3h > 2
    THEN Fire(acc, 15, "Moderate rainfall", <<>>)
    ELSE acc

tiller_wind_any(acc, wind_speed, rainfall_3h) ==
    IF wind_speed > 10
    THEN Fire(acc, 15, "Strong winds with rain - disease spread risk",
              <<"Monitor for wind-blown disease spread">>)
    ELSE acc

tiller_wind(acc, wind_speed, rainfall_3h) ==
    IF wind_speed > 10 /\ rainfall_3h > 0
    THEN Fire(acc, 15, "Strong winds with rain - disease spread risk",
              <<"Monitor for wind-blown disease spread">>)
    ELSE IF wind_speed > 15
    THEN Fire(acc, 10, "Strong winds may spread disease", <<>>)
    ELSE acc

tiller_condition(acc, weather_condition) ==
    IF weather_condition \in {"Thunderstorm"}
    THEN Fire(acc, 20, "Severe weather conditions",
              <<"Expect increased disease pressure after storm">>)
    ELSE IF weather_condition \in {"Rain", "Drizzle"}
    THEN Fire(acc, 15, "Wet weather conditions", <<>>)
    ELSE acc

tiller_combined(acc, temperature, humidity, rainfall_3h) ==
    LET a == IF humidity > 85 /\ 28 <= temperature /\ temperature <= 35
             THEN Fire(acc, 25,
                       "Critical combination: Very high humidity + optimal temperature",
                       <<"Apply systemic fungicide immediately">>)
             ELSE acc
    IN IF rainfall_3h > 5 /\ humidity > 80
       THEN Fire(a, 20,
                 "Critical combination: Heavy rain + high humidity (continuous moisture)",
                 <<"Improve drainage and air circulation">>)
       ELSE a

tiller_dry(acc, humidity, rainfall_3h) ==
    IF humidity < 70 /\ rainfall_3h = 0
    THEN Reduce(acc, 15, "Dry conditions reduce disease risk",
                <<"Favorable conditions for plant health">>)
    ELSE acc

tiller_level_recommendations(risk_level) ==
    IF risk_level = "critical"
    THEN <<"EMERGENCY: Apply systemic fungicide now",
           "Inspect all tillers for symptoms",
           "Implement emergency drainage measures",
           "Consider copper-based treatments">>
    ELSE IF risk_level = "high"
    THEN <<"Apply preventive fungicide to tillers",
           "Monitor tiller development closely",
           "Improve field ventilation",
           "Check drainage systems">>
    ELSE IF risk_level = "medium"
    THEN <<"Increase tiller monitoring",
           "Prepare treatment materials",
           "Monitor weather forecasts closely">>
    ELSE <<"Continue routine monitoring",
           "Good conditions for tiller development">>

calculate_tiller_risk(wd) ==
    IF ~HasRequired(wd) THEN KeyError
    ELSE
    LET current == wd["current"]
        temperature == current["temperature"]
        humidity == current["humidity"]
        rainfall_3h == current["rainfall_3h"]
        wind_speed == current["wind_speed"]
        weather_condition == current["weather_condition"]
        a1 == tiller_temperature(NoRisk, temperature)
        a2 == tiller_humidity(a1, humidity)
        a3 == tiller_rainfall(a2, rainfall_3h)
        a4 == tiller_wind(a3, wind_speed, rainfall_3h)
        a5 == tiller_condition(a4, weather_condition)
        a6 == tiller_combined(a5, temperature, humidity, rainfall_3h)
        a7 == tiller_dry(a6, humidity, rainfall_3h)
        risk_level == _classify_risk_level(a7.risk_score)
    IN [disease |-> "tiller",
        risk_level |-> risk_level,
        risk_score |-> clamp(a7.risk_score),
        risk_color |-> _get_risk_color(risk_level),
        risk_factors |-> a7.risk_factors,
        recommendations |->
            a7.recommendations \o tiller_level_recommendations(risk_level)]

----------------------------------------------------------------------------
(* calculate_combined_risk *)

max_score_deadheart(deadheart_risk, tiller_risk) == deadheart_risk["risk_score"]

max_score(deadheart_risk, tiller_risk) ==
    Max(deadheart_risk["risk_score"], tiller_risk["risk_score"])

Prefixed(prefix, recs) == [i \in 1..Len(recs) |-> prefix \o recs[i]]

disease_recommendations_tiller_first(deadheart_risk, tiller_risk) ==
    (IF tiller_risk["risk_level"] \in {"high", "critical"}
     THEN Prefixed("Tiller: ", Take(tiller_risk["recommendations"], 3))
     ELSE <<>>)
    \o
    (IF deadheart_risk["risk_level"] \in {"high", "critical"}
     THEN Prefixed("Dead Heart: ", Take(deadheart_risk["recommendations"], 3))
     ELSE <<>>)

disease_recommendations(deadheart_risk, tiller_risk) ==
    (IF deadheart_risk["risk_level"] \in {"high", "critical"}
     THEN Prefixed("Dead Heart: ", Take(deadheart_risk["recommendations"], 3))
     ELSE <<>>)
    \o
    (IF tiller_risk["risk_level"] \in {"high", "critical"}
     THEN Prefixed("Tiller: ", Take(tiller_risk["recommendations"], 3))
     ELSE <<>>)

general_recommendations_always(overall_risk_level) ==
    <<"Consider consulting agricultural extension officer",
      "Document symptoms with photos for expert review">>

general_recommendations(overall_risk_level) ==
    IF overall_risk_level \in {"high", "critical"}
    THEN <<"Consider consulting agricultural extension officer",
           "Document symptoms with photos for expert review">>
    ELSE <<>>

calculate_combined_risk(wd) ==
    LET deadheart_risk == calculate_deadheart_risk(wd)
        tiller_risk == calculate_tiller_risk(wd)
    IN IF IsError(deadheart_risk) \/ IsError(tiller_risk) THEN KeyError
       ELSE
       LET ms == max_score(deadheart_risk, tiller_risk)
           overall_risk_level == _classify_risk_level(ms)
           all_recommendations ==
               disease_recommendations(deadheart_risk, tiller_risk)
               \o general_recommendations(overall_risk_level)
       IN IF "weather_description" \notin DOMAIN wd["current"] THEN KeyError
          ELSE
          [overall_risk |-> [risk_level |-> overall_risk_level,
                             risk_score |-> ms,
                             risk_color |-> _get_risk_color(overall_risk_level)],
           deadheart |-> deadheart_risk,
           tiller |-> tiller_risk,
           combined_recommendations |-> Take(all_recommendations, 8),
           weather_summary |->
               [temperature |-> wd["current"]["temperature"],
                humidity |-> wd["current"]["humidity"],
                rainfall |-> wd["current"]["rainfall_3h"],
                conditions |-> wd["current"]["weather_description"]]]

----------------------------------------------------------------------------
(* _approx_esb_deadheart.  A forecast_data of None is the empty dict, as  *)
(* (forecast_data or {}) makes it.                                         *)

current_of(wd) == Get(wd, "current", EmptyDict)

forecasts_of(fd) == Get(fd, "forecast", <<>>)

RECURSIVE FirstDated(_, _)
FirstDated(days, today_iso) ==
    IF days = <<>> THEN EmptyDict
    ELSE IF Get(Head(days), "date", 0) = today_iso THEN Head(days)
    ELSE FirstDated(Tail(days), today_iso)

today_forecast(forecasts, today_iso) ==
    LET d == FirstDated(forecasts, today_iso)
    IN IF DOMAIN d # {} THEN d
       ELSE IF forecasts # <<>> THEN forecasts[1] ELSE EmptyDict

next_n_days(forecasts, n) == IF forecasts # <<>> THEN Take(forecasts, n) ELSE <<>>

\* counts every dry day, not only those before the first wet day
RECURSIVE consecutive_dry_all(_)
consecutive_dry_all(days) ==
    IF days = <<>> THEN 0
    ELSE (IF Get(Head(days), "total_rainfall", 0) < 2 THEN 1 ELSE 0)
         + consecutive_dry_all(Tail(days))

RECURSIVE consecutive_dry(_)
consecutive_dry(days) ==
    IF days = <<>> THEN 0
    ELSE IF Get(Head(days), "total_rainfall", 0) < 2
    THEN 1 + consecutive_dry(Tail(days))
    ELSE 0

\* mean(...) as the exact fraction num/den
mean(xs) == [num |-> Sum(xs), den |-> Len(xs)]

Exactly(x) == [num |-> x, den |-> 1]

td_of(wd, fd, now) == today_forecast(forecasts_of(fd), now)

next7_of(fd) == next_n_days(forecasts_of(fd), 7)

min_temp_today_zero(wd, fd, now) == Get(td_of(wd, fd, now), "temperature_min", 0)

min_temp_today(wd, fd, now) ==
    Get(td_of(wd, fd, now), "temperature_min", Get(current_of(wd), "temperature", 0))

max_temp_today(wd, fd, now) ==
    Get(td_of(wd, fd, now), "temperature_max", Get(current_of(wd), "temperature", 0))

eve_rh_today(wd, fd, now) ==
    Get(td_of(wd, fd, now), "evening_rh", Get(current_of(wd), "humidity", 0))

morn_rh_today(wd, fd, now) ==
    Get(td_of(wd, fd, now), "morning_rh", Get(current_of(wd), "humidity", 0))

rain_1h_now(wd) == Get(current_of(wd), "rainfall_1h", 0)

total_rain_today(wd, fd, now) == Get(td_of(wd, fd, now), "total_rainfall", 0)

temperature_avg_today(wd, fd, now) ==
    Get(td_of(wd, fd, now), "temperature_avg", Get(current_of(wd), "temperature", 0))

no_sig_rain_last3_proxy(wd, fd, now) ==
    rain_1h_now(wd) = 0 /\ total_rain_today(wd, fd, now) <= 1

no_rain_24h_proxy(wd, fd, now) ==
    rain_1h_now(wd) = 0 /\ total_rain_today(wd, fd, now) = 0

eval_days(fd) ==
    IF next7_of(fd) # <<>>
    THEN Take(next7_of(fd), Max(4, consecutive_dry(next7_of(fd))))
    ELSE <<>>

avg_temp_future(wd, fd, now) ==
    IF eval_days(fd) # <<>>
    THEN mean(Column(eval_days(fd), "temperature_avg", 0))
    ELSE Exactly(temperature_avg_today(wd, fd, now))

prior_week_rain_proxy(fd) == Sum(Column(next7_of(fd), "total_rainfall", 0)) < 5

mean_7_future(wd, fd, now) ==
    IF next7_of(fd) # <<>>
    THEN mean(Column(next7_of(fd), "temperature_avg", 0))
    ELSE Exactly(temperature_avg_today(wd, fd, now))

temp_above_normal_proxy(wd, fd, now) ==
    temperature_avg_today(wd, fd, now) * mean_7_future(wd, fd, now).den
        > mean_7_future(wd, fd, now).num

heavy_rain_above(fd) ==
    \E i \in 1..Len(next7_of(fd)) : Get(next7_of(fd)[i], "total_rainfall", 0) > 50

heavy_rain_any_next7(fd) ==
    \E i \in 1..Len(next7_of(fd)) : Get(next7_of(fd)[i], "total_rainfall", 0) >= 50

rh80_any_next7(fd) ==
    \E i \in 1..Len(next7_of(fd)) : Get(next7_of(fd)[i], "humidity_max", 0) > 80

high_A(wd, fd, now) ==
    /\ min_temp_today(wd, fd, now) >= 23
    /\ eve_rh_today(wd, fd, now) <= 60
    /\ no_sig_rain_last3_proxy(wd, fd, now)

high_B(wd, fd, now) ==
    /\ max_temp_today(wd, fd, now) >= 35
    /\ eve_rh_today(wd, fd, now) <= 60
    /\ no_rain_24h_proxy(wd, fd, now)

elevated_C(wd, fd, now) ==
    /\ consecutive_dry(next7_of(fd)) >= 4
    /\ avg_temp_future(wd, fd, now).num > 28 * avg_temp_future(wd, fd, now).den

elevated_D(wd, fd, now) ==
    /\ morn_rh_today(wd, fd, now) <= 50
    /\ prior_week_rain_proxy(fd)
    /\ temp_above_normal_proxy(wd, fd, now)

DisrupterReason == "Monsoon/disrupter: heavy rain >=50mm or RH>80% expected (approx)"
HighAReason == "Min temp >=23C AND evening RH <=60% AND ~no rain last 3 days (approx)"
HighBReason == "Max temp >=35C AND evening RH <=60% AND ~no rain last 24h (approx)"
ElevatedCReason == ">=4 dry days (<2mm) ahead AND avg temp >28C (approx)"
ElevatedDReason == "Morning RH <=50% AND week rain <5mm AND temp above normal (approx)"
DefaultReason == "No high/elevated ESB conditions (approx) -> Low"

\* the high conditions tested before the disrupters
esb_rules_high_first(wd, fd, now) ==
    IF high_A(wd, fd, now)
    THEN [reasons |-> <<HighAReason>>, risk_level |-> "high", score |-> 90]
    ELSE IF high_B(wd, fd, now)
    THEN [reasons |-> <<HighBReason>>, risk_level |-> "high", score |-> 88]
    ELSE IF heavy_rain_any_next7(fd) \/ rh80_any_next7(fd)
    THEN [reasons |-> <<DisrupterReason>>, risk_level |-> "low", score |-> 30]
    ELSE IF elevated_C(wd, fd, now)
    THEN [reasons |-> <<ElevatedCReason>>, risk_level |-> "medium", score |-> 65]
    ELSE IF elevated_D(wd, fd, now)
    THEN [reasons |-> <<ElevatedDReason>>, risk_level |-> "medium", score |-> 60]
    ELSE [reasons |-> <<DefaultReason>>, risk_level |-> "low", score |-> 30]

\* every condition that holds appends its reason, the last one sets the score
esb_rules_every_match(wd, fd, now) ==
    IF heavy_rain_any_next7(fd) \/ rh80_any_next7(fd)
    THEN [reasons |-> <<DisrupterReason>>, risk_level |-> "low", score |-> 30]
    ELSE
    LET r0 == [reasons |-> <<>>, risk_level |-> "low", score |-> 30]
        r1 == IF high_A(wd, fd, now)
              THEN [reasons |-> Append(r0.reasons, HighAReason),
                    risk_level |-> "high", score |-> 90]
              ELSE r0
        r2 == IF high_B(wd, fd, now)
              THEN [reasons |-> Append(r1.reasons, HighBReason),
                    risk_level |-> "high", score |-> 88]
              ELSE r1
        r3 == IF elevated_C(wd, fd, now)
              THEN [reasons |-> Append(r2.reasons, ElevatedCReason),
                    risk_level |-> "medium", score |-> 65]
              ELSE r2
        r4 == IF elevated_D(wd, fd, now)
              THEN [reasons |-> Append(r3.reasons, ElevatedDReason),
                    risk_level |-> "medium", score |-> 60]
              ELSE r3
    IN IF r4.reasons = <<>>
       THEN [reasons |-> <<DefaultReason>>, risk_level |-> "low", score |-> 30]
       ELSE r4

\* the if/else chain of lines 404-439: reasons, risk_level and score
esb_rules(wd, fd, now) ==
    IF heavy_rain_any_next7(fd) \/ rh80_any_next7(fd)
    THEN [reasons |-> <<DisrupterReason>>, risk_level |-> "low", score |-> 30]
    ELSE IF high_A(wd, fd, now)
    THEN [reasons |-> <<HighAReason>>, risk_level |-> "high", score |-> 90]
    ELSE IF high_B(wd, fd, now)
    THEN [reasons |-> <<HighBReason>>, risk_level |-> "high", score |-> 88]
    ELSE IF elevated_C(wd, fd, now)
    THEN [reasons |-> <<ElevatedCReason>>, risk_level |-> "medium", score |-> 65]
    ELSE IF elevated_D(wd, fd, now)
    THEN [reasons |-> <<ElevatedDReason>>, risk_level |-> "medium", score |-> 60]
    ELSE [reasons |-> <<DefaultReason>>, risk_level |-> "low", score |-> 30]

level_enum(risk_level) ==
    IF risk_level = "high" THEN "high"
    ELSE IF risk_level = "medium" THEN "medium" ELSE "low"

_approx_esb_deadheart_strict(wd, fd, now) ==
    IF ~HasRequired(wd) THEN KeyError
    ELSE
    LET r == esb_rules(wd, fd, now)
    IN [disease |-> "deadheart",
        risk_level |-> level_enum(r.risk_level),
        risk_score |-> r.score,
        risk_color |-> _get_risk_color(level_enum(r.risk_level)),
        risk_factors |-> r.reasons,
        recommendations |-> <<>>,
        approx_mode |-> TRUE]

\* the level is taken from the thresholds instead of the rule
_approx_esb_deadheart_classified(wd, fd, now) ==
    LET r == esb_rules(wd, fd, now)
    IN [disease |-> "deadheart",
        risk_level |-> _classify_risk_level(r.score),
        risk_score |-> r.score,
        risk_color |-> _get_risk_color(_classify_risk_level(r.score)),
        risk_factors |-> r.reasons,
        recommendations |-> <<>>,
        approx_mode |-> TRUE]

_approx_esb_deadheart(wd, fd, now) ==
    LET r == esb_rules(wd, fd, now)
    IN [disease |-> "deadheart",
        risk_level |-> level_enum(r.risk_level),
        risk_score |-> r.score,
        risk_color |-> _get_risk_color(level_enum(r.risk_level)),
        risk_factors |-> r.reasons,
        recommendations |-> <<>>,
        approx_mode |-> TRUE]

----------------------------------------------------------------------------
(* calculate_combined_risk_with_forecast *)

calculate_combined_risk_with_forecast(wd, fd, now) ==
    LET deadheart_risk == _approx_esb_deadheart(wd, fd, now)
        tiller_risk == calculate_tiller_risk(wd)
    IN IF IsError(tiller_risk) THEN KeyError
       ELSE
       LET ms == max_score(deadheart_risk, tiller_risk)
           overall_risk_level == _classify_risk_level(ms)
           all_recommendations ==
               disease_recommendations(deadheart_risk, tiller_risk)
       IN [overall_risk |-> [risk_level |-> overall_risk_level,
                             risk_score |-> ms,
                             risk_color |-> _get_risk_color(overall_risk_level)],
           deadheart |-> deadheart_risk,
           tiller |-> tiller_risk,
           combined_recommendations |-> Take(all_recommendations, 8),
           weather_summary |->
               [temperature |-> Get(current_of(wd), "temperature", "None"),
                humidity |-> Get(current_of(wd), "humidity", "None"),
                rainfall |-> Get(current_of(wd), "rainfall_3h", "None"),
                conditions |-> Get(current_of(wd), "weather_description", "None")],
           approx_mode |-> TRUE,
           rule_mode |-> "approx_free"]

----------------------------------------------------------------------------
(* Inputs.  The readings take values on both sides of every threshold of   *)
(* the two additive rule sets; the forecasts are up to MaxForecastDays     *)
(* days of one kind with at most one day of another kind among them.       *)

MaxForecastDays == 8
MaxBelowZero == 5
MaxScore == 145

\* the scores handed to a direct classification
Scores == (0 - MaxBelowZero)..MaxScore

Temperatures == {19, 20, 24, 25, 28, 30, 35, 36, 38, 39}
Humidities == {50, 55, 60, 70, 75, 80, 85, 86}
Rainfalls == {0, 2, 5, 10, 11}
WindSpeeds == {1, 2, 5, 15, 16}
WeatherConditions ==
    {"Clear", "Sunny", "Rain", "Thunderstorm", "Drizzle", "Mist", "Clouds"}

\* the "current" block that get_current_weather builds
Reading(t, h, r3, r1, w, c) ==
    [current |-> [temperature |-> t, humidity |-> h, rainfall_3h |-> r3,
                  rainfall_1h |-> r1, wind_speed |-> w, weather_condition |-> c,
                  weather_description |-> "description"]]

ReadingsFull ==
    {Reading(t, h, r3, IF r3 = 0 THEN 0 ELSE 1, w, c) :
        t \in Temperatures, h \in Humidities, r3 \in Rainfalls,
        w \in WindSpeeds, c \in WeatherConditions}

\* calm weather or a thunderstorm, dry or humid air, rain in the last hour or not
ReadingsFew ==
    {Reading(24, h, 0, r1, 5, "Clear") : h \in {50, 55, 70}, r1 \in {0, 1}}
    \cup {Reading(30, h, 11, r1, 16, "Thunderstorm") : h \in {50, 55, 70}, r1 \in {0, 1}}

\* the two documented Dead Heart scenarios
WetScenario == Reading(27, 85, 6, 1, 1, "Rain")
DryScenario == Reading(22, 50, 0, 0, 6, "Clear")

\* hot and dry: high_A holds when there is no forecast
HotDryScenario == Reading(27, 50, 0, 0, 1, "Clear")

ReadingsScenario == {WetScenario, DryScenario, HotDryScenario}

Without(d, key) == [k \in DOMAIN d \ {key} |-> d[k]]

\* readings that lack one field, or the whole "current" block
ReadingsMissing ==
    {[current |-> Without(base["current"], key)] :
        base \in {WetScenario, HotDryScenario},
        key \in RequiredFields \cup {"rainfall_1h", "weather_description"}}
    \cup {EmptyDict}

\* the daily aggregate that get_weather_forecast builds, without its date
DayKind(rain, tmin, tmax, tavg, hmax) ==
    [total_rainfall |-> rain, temperature_min |-> tmin, temperature_max |-> tmax,
     temperature_avg |-> tavg, humidity_max |-> hmax]

Scorching == DayKind(0, 24, 36, 30, 60)
Warm == DayKind(0, 22, 36, 29, 70)
Cool == DayKind(1, 23, 28, 25, 75)
Showers == DayKind(3, 20, 30, 29, 80)
HeavyRain == DayKind(50, 22, 29, 25, 80)
Humid == DayKind(0, 22, 30, 26, 81)

DayKinds == {Scorching, Warm, Cool, Showers, HeavyRain, Humid}

ForecastDay(kind, date) ==
    [date |-> date,
     temperature_min |-> kind.temperature_min,
     temperature_max |-> kind.temperature_max,
     temperature_avg |-> kind.temperature_avg,
     humidity_max |-> kind.humidity_max,
     total_rainfall |-> kind.total_rainfall]

\* n days of one kind, day p of another kind; dates ascend from 1
Forecast(n, kind, p, other) ==
    [forecast |-> [i \in 1..n |-> ForecastDay(IF i = p THEN other ELSE kind, i)]]

ForecastsMany ==
    {Forecast(n, kind, p, other) :
        n \in 0..MaxForecastDays, kind \in DayKinds,
        p \in 1..MaxForecastDays, other \in DayKinds}

\* no forecast at all: forecast_data is None
ForecastsFew == {EmptyDict}

----------------------------------------------------------------------------
(* models.py: the questionnaire encoder and the fusion of DiseasePredictor. *)
(* A Python str is the sequence of its characters, a questionnaire answer   *)
(* is a value with its Python type, and a float is the exact fraction       *)
(* num/den (den > 0): rounding of the binary representation is left out.    *)

Chars(type, value) == [type |-> type, value |-> value]

str(value) == Chars("str", value)

isinstance(v, type) == v.type = type

lower_char(c) ==
    CASE c = "Y" -> "y"
      [] c = "E" -> "e"
      [] c = "S" -> "s"
      [] c = "N" -> "n"
      [] c = "O" -> "o"
      [] OTHER -> c

lower_identity(s) == s

lower(s) == [i \in 1..Len(s) |-> lower_char(s[i])]

tiller_question_order ==
    <<"affected_setts_spreading",
      "plants_stunted_slow_growth",
      "honey_dew_sooty_mould",
      "nodal_regions_infested",
      "tillers_white_yellow",
      "high_aphid_population",
      "gaps_early_drying",
      "cane_stunted_reduced_internodes",
      "no_millable_cane_formation",
      "profuse_lateral_buds",
      "woolly_matter_deposition",
      "gradual_yellowing_drying",
      "yellowing_from_tip_margins",
      "profuse_tillering_3_4_months",
      "ratoon_crop_present">>

deadheart_question_order ==
    <<"boreholes_plugged_excreta",
      "central_whorl_dry_withered",
      "affected_shoots_come_off_easily",
      "affected_shoots_wilting_drying",
      "caterpillars_destroying_shoots",
      "reduction_millable_canes",
      "bore_holes_base_ground_level",
      "dirty_white_larvae_violet_stripes",
      "central_shoot_comes_out_easily",
      "small_holes_stem_near_ground",
      "crop_early_growth_phase",
      "leaves_drying_tip_margins",
      "plant_yellow_wilted",
      "rotten_central_shoot_foul_odor",
      "rotten_straw_colored_dead_heart">>

\* one pass of the loop body: the feature of one question
question_feature(questions_data, question_id) ==
    LET value == Get(questions_data, question_id, str(<<"n", "o">>))
    IN  IF isinstance(value, "str")
        THEN (IF lower(value.value) = <<"y", "e", "s">> THEN 1 ELSE 0)
        ELSE 0

expected_features == 15

ensure_expected_short(features) == Take(features, expected_features - 1)

ensure_expected(features) ==
    IF Len(features) < expected_features
    THEN features \o [i \in 1..(expected_features - Len(features)) |-> 0]
    ELSE IF Len(features) > expected_features
    THEN Take(features, expected_features)
    ELSE features

_convert_questions_to_features(self, questions_data) ==
    LET order == IF self.disease_name = "tiller"
                 THEN tiller_question_order
                 ELSE deadheart_question_order
        features == [i \in 1..Len(order) |-> question_feature(questions_data, order[i])]
    IN  ensure_expected(features)

RECURSIVE gcd(_, _)
gcd(a, b) == IF b = 0 THEN a ELSE gcd(b, a % b)

\* the number n / d (n >= 0, d > 0), in lowest terms
Fraction(n, d) == [num |-> n \div gcd(n, d), den |-> d \div gcd(n, d)]

digit(c) ==
    CASE c = "0" -> 0 [] c = "1" -> 1 [] c = "2" -> 2 [] c = "3" -> 3 [] c = "4" -> 4
      [] c = "5" -> 5 [] c = "6" -> 6 [] c = "7" -> 7 [] c = "8" -> 8 [] c = "9" -> 9

RECURSIVE digits(_)
digits(s) ==
    IF s = <<>> THEN 0
    ELSE 10 * digits(SubSeq(s, 1, Len(s) - 1)) + digit(s[Len(s)])

RECURSIVE power_of_ten(_)
power_of_ten(n) == IF n = 0 THEN 1 ELSE 10 * power_of_ten(n - 1)

\* float("i.f") and float("i") of a decimal literal without sign
float(s) ==
    LET points == {i \in 1..Len(s) : s[i] = "."}
    IN  IF points = {} THEN Fraction(digits(s), 1)
        ELSE LET p == CHOOSE i \in points : TRUE
             IN  Fraction(digits(SubSeq(s, 1, p - 1) \o SubSeq(s, p + 1, Len(s))),
                          power_of_ten(Len(s) - p))

float_mul(a, b) == Fraction(a.num * b.num, a.den * b.den)

float_add(a, b) == Fraction(a.num * b.den + b.num * a.den, a.den * b.den)

float_ge(a, b) == a.num * b.den >= b.num * a.den

float_gt(a, b) == a.num * b.den > b.num * a.den

getenv(environ, key, default) == Get(environ, key, default)

\* DiseasePredictor.__init__, as far as the fusion reads it
DiseasePredictor(disease_name, environ) ==
    [disease_name |-> disease_name,
     w_img |-> float(getenv(environ, "IMAGE_WEIGHT", <<"0", ".", "6">>)),
     w_tab |-> float(getenv(environ, "TABNET_WEIGHT", <<"0", ".", "4">>))]

fusion_label_above(self, final_score, threshold) ==
    IF float_gt(final_score, threshold)
    THEN self.disease_name
    ELSE "not_" \o self.disease_name

fusion_label(self, final_score, threshold) ==
    IF float_ge(final_score, threshold)
    THEN self.disease_name
    ELSE "not_" \o self.disease_name

fusion_score_swapped(self, image_confidence, tabnet_prob) ==
    float_add(float_mul(self.w_tab, image_confidence), float_mul(self.w_img, tabnet_prob))

fusion_score(self, image_confidence, tabnet_prob) ==
    float_add(float_mul(self.w_img, image_confidence), float_mul(self.w_tab, tabnet_prob))

\* the weights are read again at every call
_fusion_scoring_reread(self, environ, image_confidence, tabnet_prob) ==
    LET again == DiseasePredictor(self.disease_name, environ)
        final_score == fusion_score(again, image_confidence, tabnet_prob)
        threshold == float(getenv(environ, "PREDICTION_THRESHOLD", <<"0", ".", "5">>))
    IN  [final_score |-> final_score,
         final_label |-> fusion_label(self, final_score, threshold)]

_fusion_scoring(self, environ, image_confidence, tabnet_prob) ==
    LET final_score == fusion_score(self, image_confidence, tabnet_prob)
        threshold == float(getenv(environ, "PREDICTION_THRESHOLD", <<"0", ".", "5">>))
    IN  [final_score |-> final_score,
         final_label |-> fusion_label(self, final_score, threshold)]

calculate_fusion_score(image_confidence, tabnet_prob, w_img, w_tab) ==
    float_add(float_mul(w_img, image_confidence), float_mul(w_tab, tabnet_prob))

\* round(x, 3) of x >= 0: the nearest multiple of 1/1000, a tie to the even one
round3(x) ==
    LET scaled == x.num * 1000
        q == scaled \div x.den
        r == scaled % x.den
    IN  IF 2 * r > x.den \/ (2 * r = x.den /\ q % 2 = 1)
        THEN Fraction(q + 1, 1000)
        ELSE Fraction(q, 1000)

\* DiseasePredictor.predict, given what the two models return
predict(self, environ, image_confidence, tabnet_prob) ==
    LET fused == _fusion_scoring(self, environ, image_confidence, tabnet_prob)
    IN  [image_confidence |-> round3(image_confidence),
         tabnet_prob |-> round3(tabnet_prob),
         final_score |-> round3(fused.final_score),
         final_label |-> fused.final_label]

----------------------------------------------------------------------------
(* Inputs of the predictor: questionnaires, confidences and environments.  *)

MaxAnswers == 2

MaxPredictions == 2

DiseaseNames == {"tiller", "deadheart", "dead_heart", "test_disease"}

AnswerKeys ==
    {deadheart_question_order[1], deadheart_question_order[2], deadheart_question_order[15],
     tiller_question_order[1], tiller_question_order[15], "field_notes"}

AnswerValues ==
    {str(<<"y", "e", "s">>), str(<<"Y", "e", "s">>), str(<<"Y", "E", "S">>),
     str(<<"n", "o">>), str(<<>>), str(<<"y", "e", "s", " ">>),
     Chars("int", <<"1">>), Chars("bool", <<"T", "r", "u", "e">>),
     Chars("list", <<"y", "e", "s">>)}

AnswersFew ==
    UNION {[keys -> AnswerValues] :
              keys \in {K \in SUBSET AnswerKeys : Cardinality(K) <= MaxAnswers}}

\* every question of one disease answered, odd and even positions alike,
\* and two keys that are no question: more than 15 keys
AnswersAll(order, odd, even) ==
    [k \in {order[i] : i \in 1..Len(order)} \cup {"field_notes", "farmer_name"} |->
        IF k \in {order[i] : i \in {1, 3, 5, 7, 9, 11, 13, 15}} THEN odd
        ELSE IF k \in {order[i] : i \in 1..Len(order)} THEN even
        ELSE str(<<"y", "e", "s">>)]

AnswersMany ==
    {AnswersAll(order, odd, even) :
        order \in {tiller_question_order, deadheart_question_order},
        odd \in AnswerValues, even \in AnswerValues}

Confidences ==
    {Fraction(0, 1), Fraction(1, 5), Fraction(3, 10), Fraction(1, 2), Fraction(7, 10),
     Fraction(4, 5), Fraction(1, 1), Fraction(3, 2)}

Weights ==
    {<<Fraction(6, 10), Fraction(4, 10)>>, <<Fraction(1, 1), Fraction(0, 1)>>,
     <<Fraction(0, 1), Fraction(1, 1)>>}

FusionArgs ==
    [image_confidence : Confidences, tabnet_prob : Confidences]
    \cup {[image_confidence |-> ic, tabnet_prob |-> tp, w_img |-> w[1], w_tab |-> w[2]] :
            ic \in Confidences, tp \in Confidences, w \in Weights}

Setting(key, values) == {EmptyDict} \cup {[k \in {key} |-> v] : v \in values}

Merge(d, e) == [k \in DOMAIN d \cup DOMAIN e |-> IF k \in DOMAIN d THEN d[k] ELSE e[k]]

Environments ==
    {Merge(i, Merge(t, p)) :
        i \in Setting("IMAGE_WEIGHT", {<<"0", ".", "6">>, <<"1", ".", "0">>, <<"0">>}),
        t \in Setting("TABNET_WEIGHT", {<<"0", ".", "4">>, <<"0", ".", "0">>, <<"1">>}),
        p \in Setting("PREDICTION_THRESHOLD", {<<"0", ".", "5">>, <<"0", ".", "7">>, <<"0", ".", "5", "2">>})}

----------------------------------------------------------------------------
(* main.py: the two prediction endpoints.  An exception is a record of its *)
(* class and what it carries; a handler returns a response or raises.      *)

startswith(s, prefix) == Len(s) >= Len(prefix) /\ SubSeq(s, 1, Len(prefix)) = prefix

HTTPException(status_code, detail) ==
    [class |-> "HTTPException", status_code |-> status_code, detail |-> detail]

\* image.content_type is None
AttributeError ==
    [class |-> "AttributeError", status_code |-> 0,
     detail |-> "'NoneType' object has no attribute 'startswith'"]

\* whatever predict raises
PredictError == [class |-> "Exception", status_code |-> 0, detail |-> "prediction error"]

\* the classes an `except Exception` clause catches
ExceptionSubclasses == {"Exception", "HTTPException", "AttributeError"}

status_text(status_code) ==
    CASE status_code = 400 -> "400"
      [] status_code = 500 -> "500"
      [] OTHER -> "0"

\* str(e)
str_exception(e) ==
    IF e.class = "HTTPException" THEN status_text(e.status_code) \o ": " \o e.detail
    ELSE e.detail

Raised(e) == [raised |-> TRUE, exception |-> e, status_code |-> 0, language |-> "", predicted |-> FALSE]

JSONResponse(language) ==
    [raised |-> FALSE, exception |-> PredictError, status_code |-> 200,
     language |-> language, predicted |-> TRUE]

\* the statements inside the try block of predict_deadheart and predict_tiller
predict_try(request) ==
    IF request.content_type.type # "str" THEN Raised(AttributeError)
    ELSE IF ~startswith(request.content_type.value, <<"i", "m", "a", "g", "e", "/">>)
    THEN Raised(HTTPException(400, "File must be an image"))
    ELSE IF request.prediction = "raises"
    THEN [Raised(PredictError) EXCEPT !.predicted = TRUE]
    ELSE JSONResponse(request.language)

\* the try block with its `except Exception` clause, and what the client gets
predict_handler(request) ==
    LET outcome == predict_try(request)
        final == IF outcome.raised /\ outcome.exception.class \in ExceptionSubclasses
                 THEN [Raised(HTTPException(500, "Prediction failed: "
                                                  \o str_exception(outcome.exception)))
                          EXCEPT !.predicted = outcome.predicted]
                 ELSE outcome
    IN  [status_code |-> IF final.raised THEN final.exception.status_code ELSE final.status_code,
         detail |-> IF final.raised THEN final.exception.detail ELSE "",
         language |-> final.language,
         predicted |-> final.predicted]

----------------------------------------------------------------------------
(* The objects created at import: disease_risk_assessor and the weather   *)
(* service.                                                                *)

\* DiseaseRiskAssessment.__init__
DiseaseRiskAssessment == [risk_thresholds |-> risk_thresholds]

int(s) == digits(s)

\* WeatherService.__init__
WeatherService(environ) ==
    [api_key |-> getenv(environ, "OPENWEATHER_API_KEY", <<>>),
     cache_duration |-> int(getenv(environ, "WEATHER_CACHE_DURATION", <<"1", "8", "0", "0">>)),
     cache |-> EmptyDict]

----------------------------------------------------------------------------
(* weather.py: the cache of the weather service.  A call is a frame: its   *)
(* request, where it stands and what it returned; it waits at the await of *)
(* the fetch, where other calls and the clock move on.                     *)

\* str(x) of the coordinates in use
str_float(x) ==
    CASE x = Fraction(1, 1) -> "1.0"
      [] x = Fraction(11, 1) -> "11.0"
      [] x = Fraction(1, 10) -> "0.1"

\* str(days)
str_int(n) ==
    CASE n = 1 -> "1" [] n = 2 -> "2" [] n = 3 -> "3" [] n = 4 -> "4" [] n = 5 -> "5"

_get_cache_key_by_latitude(lat, lon, endpoint) == endpoint \o "_" \o str_float(lat)

_get_cache_key(lat, lon, endpoint) ==
    endpoint \o "_" \o str_float(lat) \o "_" \o str_float(lon)

_is_cache_valid_inclusive(self, timestamp, now) == now - timestamp <= self.cache_duration

_is_cache_valid(self, timestamp, now) == now - timestamp < self.cache_duration

\* the endpoint name the cache key is built from
endpoint_of(request) ==
    IF request.method = "get_current_weather" THEN "weather"
    ELSE "forecast_" \o str_int(request.days)

cache_key_of(request) == _get_cache_key(request.lat, request.lon, endpoint_of(request))

\* "Check cache first"
cached(self, request, now) ==
    /\ cache_key_of(request) \in DOMAIN self.cache
    /\ _is_cache_valid(self, self.cache[cache_key_of(request)].timestamp, now)

\* the structured data built from the provider's answer at time now
weather_data_of(request, now) ==
    [kind |-> IF request.method = "get_current_weather" THEN "current" ELSE "forecast",
     coordinates |-> [lat |-> request.lat, lon |-> request.lon],
     days |-> request.days,
     timestamp |-> now]

\* self.cache[cache_key] = (data, time.time())
cache_store(self, request, data, now) ==
    [self EXCEPT !.cache =
        [k \in DOMAIN self.cache \cup {cache_key_of(request)} |->
            IF k = cache_key_of(request) THEN [data |-> data, timestamp |-> now]
            ELSE self.cache[k]]]

ServiceUnavailable == [error |-> "HTTPException", status_code |-> 503]

----------------------------------------------------------------------------
(* The state machine: a request arrives with its inputs and one of the     *)
(* operations is called on them.                                           *)

NoResult == EmptyDict

\* the state the scoring and fusion operations neither read nor write
rest == <<clock, weather_service, provider_requests, calls, heap, assessor, predictions>>

InitRest ==
    /\ clock = 0
    /\ weather_service = WeatherService(EmptyDict)
    /\ provider_requests = 0
    /\ calls = <<>>
    /\ heap = <<>>
    /\ assessor = DiseaseRiskAssessment
    /\ predictions = 0

Init ==
    /\ \/ /\ weather_data \in ReadingsFull \cup ReadingsScenario \cup ReadingsMissing
          /\ forecast_data \in ForecastsFew
          /\ today = 1
       \/ /\ weather_data \in ReadingsFew
          /\ forecast_data \in ForecastsMany
          /\ today \in 1..2
    /\ InitRest
    /\ arg = 0
    /\ env = EmptyDict
    /\ predictor = DiseasePredictor("deadheart", env)
    /\ op = "none"
    /\ result = NoResult

InitClassify ==
    /\ weather_data = WetScenario
    /\ forecast_data = EmptyDict
    /\ today = 1
    /\ arg \in Scores
    /\ InitRest
    /\ env = EmptyDict
    /\ predictor = DiseasePredictor("deadheart", env)
    /\ op = "none"
    /\ result = NoResult

ClassifyRiskLevel ==
    /\ op' = "_classify_risk_level"
    /\ result' = [risk_level |-> _classify_risk_level(arg)]
    /\ UNCHANGED <<weather_data, forecast_data, today, arg, predictor, env, rest>>

\* a reading with every missing required field filled in
WithDefaults(wd) ==
    [current |->
        [k \in RequiredFields \cup DOMAIN current_of(wd) |->
            IF k \in DOMAIN current_of(wd) THEN current_of(wd)[k]
            ELSE IF k = "weather_condition" THEN "Unknown" ELSE 0]]

CalculateDeadheartRisk_defaults ==
    /\ op' = "calculate_deadheart_risk"
    /\ result' = calculate_deadheart_risk(WithDefaults(weather_data))
    /\ UNCHANGED <<weather_data, forecast_data, today, arg, predictor, env, rest>>

CalculateDeadheartRisk ==
    /\ op' = "calculate_deadheart_risk"
    /\ result' = calculate_deadheart_risk(weather_data)
    /\ UNCHANGED <<weather_data, forecast_data, today, arg, predictor, env, rest>>

CalculateTillerRisk ==
    /\ op' = "calculate_tiller_risk"
    /\ result' = calculate_tiller_risk(weather_data)
    /\ UNCHANGED <<weather_data, forecast_data, today, arg, predictor, env, rest>>

CalculateCombinedRisk ==
    /\ op' = "calculate_combined_risk"
    /\ result' = calculate_combined_risk(weather_data)
    /\ UNCHANGED <<weather_data, forecast_data, today, arg, predictor, env, rest>>

ApproxEsbDeadheart ==
    /\ op' = "_approx_esb_deadheart"
    /\ result' = _approx_esb_deadheart(weather_data, forecast_data, today)
    /\ UNCHANGED <<weather_data, forecast_data, today, arg, predictor, env, rest>>

CalculateCombinedRiskWithForecast ==
    /\ op' = "calculate_combined_risk_with_forecast"
    /\ result' = calculate_combined_risk_with_forecast(weather_data, forecast_data, today)
    /\ UNCHANGED <<weather_data, forecast_data, today, arg, predictor, env, rest>>

Next ==
    \/ CalculateDeadheartRisk
    \/ CalculateTillerRisk
    \/ CalculateCombinedRisk
    \/ ApproxEsbDeadheart
    \/ CalculateCombinedRiskWithForecast

Spec == Init /\ [][Next]_vars

NextClassify == ClassifyRiskLevel

SpecClassify == InitClassify /\ [][NextClassify]_vars

InitPredictor ==
    /\ InitRest
    /\ weather_data = WetScenario
    /\ forecast_data = EmptyDict
    /\ today = 1
    /\ env \in Environments
    /\ \E disease_name \in DiseaseNames : predictor = DiseasePredictor(disease_name, env)
    /\ op = "none"
    /\ result = NoResult

InitEncode ==
    /\ InitPredictor
    /\ env = EmptyDict
    /\ arg \in AnswersFew \cup AnswersMany

ConvertQuestionsToFeatures ==
    /\ op' = "_convert_questions_to_features"
    /\ result' = [features |-> _convert_questions_to_features(predictor, arg)]
    /\ UNCHANGED <<weather_data, forecast_data, today, arg, predictor, env, rest>>

NextEncode == ConvertQuestionsToFeatures

SpecEncode == InitEncode /\ [][NextEncode]_vars

InitFusion ==
    /\ InitPredictor
    /\ predictor.disease_name \in {"deadheart", "tiller"}
    /\ arg \in FusionArgs

FusionScoring ==
    /\ op' = "_fusion_scoring"
    /\ result' = _fusion_scoring(predictor, env, arg.image_confidence, arg.tabnet_prob)
    /\ UNCHANGED <<weather_data, forecast_data, today, arg, predictor, env, rest>>

CalculateFusionScore ==
    /\ op' = "calculate_fusion_score"
    /\ result' = [score |-> calculate_fusion_score(arg.image_confidence, arg.tabnet_prob,
                                Get(arg, "w_img", Fraction(6, 10)),
                                Get(arg, "w_tab", Fraction(4, 10)))]
    /\ UNCHANGED <<weather_data, forecast_data, today, arg, predictor, env, rest>>

NextFusion ==
    \/ FusionScoring
    \/ CalculateFusionScore

SpecFusion == InitFusion /\ [][NextFusion]_vars

MaxCalls == 3

MaxTicks == 3

WeatherRequests ==
    {[method |-> "get_current_weather", lat |-> Fraction(1, 1), lon |-> Fraction(11, 1), days |-> 0],
     [method |-> "get_current_weather", lat |-> Fraction(1, 1), lon |-> Fraction(1, 10), days |-> 0],
     [method |-> "get_weather_forecast", lat |-> Fraction(1, 1), lon |-> Fraction(11, 1), days |-> 5],
     [method |-> "get_weather_forecast", lat |-> Fraction(1, 1), lon |-> Fraction(11, 1), days |-> 3]}

WeatherEnvironments ==
    {Merge(k, d) :
        k \in Setting("OPENWEATHER_API_KEY", {<<"k", "e", "y">>}),
        d \in Setting("WEATHER_CACHE_DURATION", {<<"9", "0", "0">>, <<"0">>})}

InitWeather ==
    /\ weather_data = WetScenario
    /\ forecast_data = EmptyDict
    /\ today = 1
    /\ arg = 0
    /\ env \in WeatherEnvironments
    /\ predictor = DiseasePredictor("deadheart", env)
    /\ clock = 0
    /\ weather_service = WeatherService(env)
    /\ provider_requests = 0
    /\ calls = <<>>
    /\ heap = <<>>
    /\ assessor = DiseaseRiskAssessment
    /\ predictions = 0
    /\ op = "none"
    /\ result = NoResult

\* get_current_weather / get_weather_forecast up to the await of the fetch
WeatherCall ==
    /\ Len(calls) < MaxCalls
    /\ \E request \in WeatherRequests :
        IF cached(weather_service, request, clock)
        THEN /\ calls' = Append(calls,
                    [request |-> request, pc |-> "returned_cached",
                     result |-> weather_service.cache[cache_key_of(request)].data])
             /\ op' = request.method
             /\ result' = weather_service.cache[cache_key_of(request)].data
             /\ UNCHANGED provider_requests
        ELSE IF weather_service.api_key = <<>>
        THEN /\ calls' = Append(calls,
                    [request |-> request, pc |-> "raised", result |-> ServiceUnavailable])
             /\ op' = request.method
             /\ result' = ServiceUnavailable
             /\ UNCHANGED provider_requests
        ELSE /\ calls' = Append(calls,
                    [request |-> request, pc |-> "fetching", result |-> NoResult])
             /\ provider_requests' = provider_requests + 1
             /\ UNCHANGED <<op, result>>
    /\ UNCHANGED <<weather_data, forecast_data, today, arg, predictor, env, clock,
                   weather_service, heap, assessor, predictions>>

\* the provider answers: the data is structured, cached and returned
FetchReturns ==
    /\ \E i \in 1..Len(calls) :
        /\ calls[i].pc = "fetching"
        /\ calls' = [calls EXCEPT ![i] =
                        [@ EXCEPT !.pc = "returned_fetched",
                                  !.result = weather_data_of(calls[i].request, clock)]]
        /\ weather_service' = cache_store(weather_service, calls[i].request,
                                          weather_data_of(calls[i].request, clock), clock)
        /\ op' = calls[i].request.method
        /\ result' = weather_data_of(calls[i].request, clock)
    /\ UNCHANGED <<weather_data, forecast_data, today, arg, predictor, env, clock,
                   provider_requests, heap, assessor, predictions>>

\* the provider answers with an error or not at all: HTTPException
FetchRaises ==
    /\ \E i \in 1..Len(calls) :
        /\ calls[i].pc = "fetching"
        /\ calls' = [calls EXCEPT ![i] =
                        [@ EXCEPT !.pc = "raised", !.result = ServiceUnavailable]]
        /\ op' = calls[i].request.method
        /\ result' = ServiceUnavailable
    /\ UNCHANGED <<weather_data, forecast_data, today, arg, predictor, env, clock,
                   weather_service, provider_requests, heap, assessor, predictions>>

\* a quarter of an hour passes
Tick ==
    /\ clock < MaxTicks * 900
    /\ clock' = clock + 900
    /\ UNCHANGED <<weather_data, forecast_data, today, arg, predictor, env, weather_service,
                   provider_requests, calls, heap, assessor, predictions, op, result>>

NextWeather ==
    \/ WeatherCall
    \/ FetchReturns
    \/ FetchRaises
    \/ Tick

SpecWeather == InitWeather /\ [][NextWeather]_vars

ModelOutputs ==
    {Fraction(0, 1), Fraction(1, 5), Fraction(4994, 10000), Fraction(4996, 10000),
     Fraction(1, 2), Fraction(6996, 10000), Fraction(4, 5), Fraction(1, 1)}

InitPredict ==
    /\ InitPredictor
    /\ predictor.disease_name \in {"deadheart", "tiller"}
    /\ arg \in [image_confidence : ModelOutputs, tabnet_prob : ModelOutputs]

PredictorPredict ==
    /\ predictions < MaxPredictions
    /\ op' = "predict"
    /\ result' = predict(predictor, env, arg.image_confidence, arg.tabnet_prob)
    /\ predictions' = predictions + 1
    /\ UNCHANGED <<weather_data, forecast_data, today, arg, predictor, env, clock,
                   weather_service, provider_requests, calls, heap, assessor>>

NextPredict == PredictorPredict

SpecPredict == InitPredict /\ [][NextPredict]_vars

ConfigValues ==
    [IMAGE_WEIGHT |-> {<<"0", ".", "6">>, <<"1", ".", "0">>, <<"0">>},
     TABNET_WEIGHT |-> {<<"0", ".", "4">>, <<"0", ".", "0">>, <<"1">>},
     PREDICTION_THRESHOLD |-> {<<"0", ".", "5">>, <<"0", ".", "7">>, <<"0", ".", "2">>}]

\* the predictors exist, built with the default configuration
InitConfig ==
    /\ InitPredictor
    /\ env = EmptyDict
    /\ predictor.disease_name \in {"deadheart", "tiller"}
    /\ arg \in [image_confidence : {Fraction(0, 1), Fraction(1, 2), Fraction(4, 5)},
                tabnet_prob : {Fraction(3, 10), Fraction(1, 2), Fraction(1, 1)}]

\* os.environ[key] = value
Setenv ==
    /\ \E key \in DOMAIN ConfigValues : \E value \in ConfigValues[key] :
          env' = [k \in DOMAIN env \cup {key} |-> IF k = key THEN value ELSE env[k]]
    /\ UNCHANGED <<weather_data, forecast_data, today, arg, predictor, rest, op, result>>

NextConfig ==
    \/ Setenv
    \/ FusionScoring

SpecConfig == InitConfig /\ [][NextConfig]_vars

ContentTypes ==
    {str(<<"i", "m", "a", "g", "e", "/", "p", "n", "g">>),
     str(<<"i", "m", "a", "g", "e", "/", "j", "p", "e", "g">>),
     str(<<"i", "m", "a", "g", "e", "/">>),
     str(<<"i", "m", "a", "g", "e">>),
     str(<<"I", "m", "a", "g", "e", "/", "p", "n", "g">>),
     str(<<"t", "e", "x", "t", "/", "p", "l", "a", "i", "n">>),
     str(<<"a", "p", "p", "l", "i", "c", "a", "t", "i", "o", "n", "/", "p", "d", "f">>),
     str(<<>>),
     Chars("NoneType", <<>>)}

Uploads ==
    [content_type : ContentTypes, prediction : {"returns", "raises"},
     language : {"en", "hi", "ta", "te"}]

InitEndpoint ==
    /\ InitPredictor
    /\ env = EmptyDict
    /\ predictor.disease_name = "deadheart"
    /\ arg \in Uploads

PredictDeadheart ==
    /\ predictions < MaxPredictions
    /\ op' = "predict_deadheart"
    /\ result' = [status_code |-> predict_handler(arg).status_code,
                  detail |-> predict_handler(arg).detail,
                  language |-> predict_handler(arg).language]
    /\ predictions' = predictions + (IF predict_handler(arg).predicted THEN 1 ELSE 0)
    /\ UNCHANGED <<weather_data, forecast_data, today, arg, predictor, env, clock,
                   weather_service, provider_requests, calls, heap, assessor>>

PredictTiller ==
    /\ predictions < MaxPredictions
    /\ op' = "predict_tiller"
    /\ result' = [status_code |-> predict_handler(arg).status_code,
                  detail |-> predict_handler(arg).detail,
                  language |-> predict_handler(arg).language]
    /\ predictions' = predictions + (IF predict_handler(arg).predicted THEN 1 ELSE 0)
    /\ UNCHANGED <<weather_data, forecast_data, today, arg, predictor, env, clock,
                   weather_service, provider_requests, calls, heap, assessor>>

NextEndpoint ==
    \/ PredictDeadheart
    \/ PredictTiller

SpecEndpoint == InitEndpoint /\ [][NextEndpoint]_vars

----------------------------------------------------------------------------
(* Properties *)

Single == {"calculate_deadheart_risk", "calculate_tiller_risk", "_approx_esb_deadheart"}

Combined == {"calculate_combined_risk", "calculate_combined_risk_with_forecast"}

Returned(o) == op = o /\ ~IsError(result)

\* the level the fixed thresholds assign to a score
ThresholdLevel(score) ==
    CASE score >= 90 -> "critical"
      [] score >= 75 /\ score < 90 -> "high"
      [] score >= 50 /\ score < 75 -> "medium"
      [] score < 50 -> "low"

LevelRank(level) ==
    CASE level = "low" -> 0
      [] level = "medium" -> 1
      [] level = "high" -> 2
      [] level = "critical" -> 3

Cur == weather_data["current"]

Days == IF "forecast" \in DOMAIN forecast_data THEN forecast_data["forecast"] ELSE <<>>

InFirstWeek(i) == i \in 1..Len(Days) /\ i <= 7

\* C1: every risk_score returned for a reading with all required fields is
\* within [0, 100], and so is the overall risk_score of both combinations.
C1_ScoreWithinBounds ==
    /\ (op \in Single /\ HasRequired(weather_data)) =>
          /\ ~IsError(result)
          /\ 0 <= result["risk_score"] /\ result["risk_score"] <= 100
    /\ (op \in Combined /\ ~IsError(result)) =>
          /\ 0 <= result["overall_risk"]["risk_score"]
          /\ result["overall_risk"]["risk_score"] <= 100

\* a Dead Heart score whose raw sum of 140 was cut to 100
C1_Witness ==
    /\ Returned("calculate_deadheart_risk")
    /\ weather_data = WetScenario
    /\ result["risk_score"] = 100

\* C2: _classify_risk_level gives critical from 90, high from 75, medium
\* from 50 and low below 50 (25 is no boundary), and never gives a larger
\* score a lower level.
C2_ClassifyPartition ==
    op = "_classify_risk_level" =>
        /\ result["risk_level"] \in RiskLevel
        /\ result["risk_level"] = ThresholdLevel(arg)
        /\ \A s \in Scores :
              s <= arg =>
                  LevelRank(_classify_risk_level(s)) <= LevelRank(result["risk_level"])

\* a score in [25, 50) classified low
C2_Witness ==
    /\ op = "_classify_risk_level"
    /\ arg >= 25 /\ arg < 50
    /\ result["risk_level"] = "low"

\* C3: in every single-disease result the risk_level is the level the
\* fixed thresholds assign to the risk_score of that result.
C3_LevelMatchesScore ==
    (op \in Single /\ ~IsError(result)) =>
        result["risk_level"] = ThresholdLevel(result["risk_score"])

\* C4: the overall risk_score of a combination is the larger of the two
\* disease scores contained in the same output.
C4_OverallIsMax ==
    (op \in Combined /\ ~IsError(result)) =>
        /\ result["overall_risk"]["risk_score"] >= result["deadheart"]["risk_score"]
        /\ result["overall_risk"]["risk_score"] >= result["tiller"]["risk_score"]
        /\ result["overall_risk"]["risk_score"] \in
              {result["deadheart"]["risk_score"], result["tiller"]["risk_score"]}

\* a forecast combination in which the Tiller score is the larger one
C4_Witness ==
    /\ Returned("calculate_combined_risk_with_forecast")
    /\ result["deadheart"]["approx_mode"]
    /\ result["tiller"]["risk_score"] > result["deadheart"]["risk_score"]
    /\ result["overall_risk"]["risk_score"] = result["tiller"]["risk_score"]

\* C5: the overall risk_level of a combination is the risk_level of a
\* disease result whose risk_score is the maximum of the two scores.
C5_OverallLevelOfMax ==
    (op \in Combined /\ ~IsError(result)) =>
        \E d \in {"deadheart", "tiller"} :
            /\ result[d]["risk_score"] >= result["deadheart"]["risk_score"]
            /\ result[d]["risk_score"] >= result["tiller"]["risk_score"]
            /\ result["overall_risk"]["risk_level"] = result[d]["risk_level"]

\* the points of the Dead Heart rules before the dry-conditions reduction
DeadheartPoints(t, h, r, w, c) ==
      (IF 25 <= t /\ t <= 30 THEN 30 ELSE IF 20 <= t /\ t <= 35 THEN 15 ELSE 0)
    + (IF h > 80 THEN 25 ELSE IF h > 70 THEN 10 ELSE 0)
    + (IF r > 5 THEN 20 ELSE IF r > 0 THEN 10 ELSE 0)
    + (IF w < 2 THEN 15 ELSE IF w < 5 THEN 5 ELSE 0)
    + (IF c \in {"Rain", "Thunderstorm"} THEN 15
       ELSE IF c \in {"Drizzle", "Mist"} THEN 10 ELSE 0)
    + (IF h > 80 /\ 25 <= t /\ t <= 30 THEN 20 ELSE 0)
    + (IF r > 5 /\ w < 2 THEN 15 ELSE 0)

DeadheartS(t, h, r, w, c) ==
    IF h < 60 /\ r = 0 /\ c \in {"Clear", "Sunny"}
    THEN (IF DeadheartPoints(t, h, r, w, c) - 20 > 0
          THEN DeadheartPoints(t, h, r, w, c) - 20 ELSE 0)
    ELSE DeadheartPoints(t, h, r, w, c)

DeadheartSNow ==
    DeadheartS(Cur["temperature"], Cur["humidity"], Cur["rainfall_3h"],
               Cur["wind_speed"], Cur["weather_condition"])

Cut(s) == IF s > 100 THEN 100 ELSE IF s < 0 THEN 0 ELSE s

\* C6: calculate_deadheart_risk returns risk_score = min(100, max(0, S)) and
\* risk_level = classify(S) for the sum S of the temperature, humidity,
\* rainfall, wind and condition points and the two bonuses, reduced by 20
\* (not below 0) in dry conditions; the wet scenario gives 140 -> 100,
\* critical, and the dry scenario gives 0, low.
C6_DeadheartScore ==
    Returned("calculate_deadheart_risk") =>
        /\ result["risk_score"] = Cut(DeadheartSNow)
        /\ result["risk_level"] = ThresholdLevel(DeadheartSNow)
        /\ weather_data = WetScenario =>
              /\ DeadheartSNow = 140
              /\ result["risk_score"] = 100
              /\ result["risk_level"] = "critical"
        /\ weather_data = DryScenario =>
              /\ result["risk_score"] = 0
              /\ result["risk_level"] = "low"

\* the dry scenario: 15 points for the temperature, reduced to 0
C6_Witness ==
    /\ Returned("calculate_deadheart_risk")
    /\ weather_data = DryScenario
    /\ result["risk_factors"] =
          <<"Moderate temperature risk", "Dry conditions reduce disease risk">>
    /\ result["risk_score"] = 0

\* the points of the Tiller rules before the dry-conditions reduction
TillerPoints(t, h, r, w, c) ==
      (IF 28 <= t /\ t <= 35 THEN 30 ELSE IF 25 <= t /\ t <= 38 THEN 15 ELSE 0)
    + (IF h > 85 THEN 30 ELSE IF h > 75 THEN 15 ELSE 0)
    + (IF r > 10 THEN 25 ELSE IF r > 2 THEN 15 ELSE 0)
    + (IF w > 10 /\ r > 0 THEN 15 ELSE IF w > 15 THEN 10 ELSE 0)
    + (IF c = "Thunderstorm" THEN 20
       ELSE IF c \in {"Rain", "Drizzle"} THEN 15 ELSE 0)
    + (IF h > 85 /\ 28 <= t /\ t <= 35 THEN 25 ELSE 0)
    + (IF r > 5 /\ h > 80 THEN 20 ELSE 0)

TillerS(t, h, r, w, c) ==
    IF h < 70 /\ r = 0
    THEN (IF TillerPoints(t, h, r, w, c) - 15 > 0
          THEN TillerPoints(t, h, r, w, c) - 15 ELSE 0)
    ELSE TillerPoints(t, h, r, w, c)

TillerSNow ==
    TillerS(Cur["temperature"], Cur["humidity"], Cur["rainfall_3h"],
            Cur["wind_speed"], Cur["weather_condition"])

\* C7: calculate_tiller_risk returns risk_score = min(100, max(0, S)) and
\* risk_level = classify(S) for the sum S of the Tiller temperature,
\* humidity, rainfall, wind and condition points and the two bonuses,
\* reduced by 15 (not below 0) when humidity < 70 and there is no rain.
C7_TillerScore ==
    Returned("calculate_tiller_risk") =>
        /\ result["risk_score"] = Cut(TillerSNow)
        /\ result["risk_level"] = ThresholdLevel(TillerSNow)

\* strong wind without rain: only a wind above 15 counts, and a reading
\* whose sum is above 100
C7_Witness ==
    /\ Returned("calculate_tiller_risk")
    /\ Cur["wind_speed"] > 10 /\ Cur["wind_speed"] <= 15 /\ Cur["rainfall_3h"] = 0
    /\ Cur["humidity"] > 85 /\ Cur["temperature"] = 30
    /\ Cur["weather_condition"] = "Thunderstorm"
    /\ result["risk_score"] = 100
    /\ TillerSNow = 105

RainDisrupter == \E i \in 1..Len(Days) : InFirstWeek(i) /\ Days[i]["total_rainfall"] >= 50

HumidityDisrupter == \E i \in 1..Len(Days) : InFirstWeek(i) /\ Days[i]["humidity_max"] > 80

HighHolds ==
    \/ high_A(weather_data, forecast_data, today)
    \/ high_B(weather_data, forecast_data, today)

\* C8: a day among the first 7 forecast days with total_rainfall >= 50 or
\* humidity_max > 80 makes _approx_esb_deadheart return low, 30 with the
\* disrupter text as the only risk factor, whatever else holds.
C8_DisrupterForcesLow ==
    (op = "_approx_esb_deadheart" /\ (RainDisrupter \/ HumidityDisrupter)) =>
        /\ result["risk_level"] = "low"
        /\ result["risk_score"] = 30
        /\ result["risk_factors"] = <<DisrupterReason>>

\* a humid day alone overrides a high condition
C8_Witness ==
    /\ op = "_approx_esb_deadheart"
    /\ HumidityDisrupter /\ ~RainDisrupter
    /\ HighHolds
    /\ result["risk_score"] = 30
    /\ result["risk_factors"] = <<DisrupterReason>>

\* C9 as stated: a day with total_rainfall >= 50 anywhere in the forecast
\* list makes approximation mode return 30, low for Dead Heart.
C9_AnyDayHeavyRain ==
    (op = "_approx_esb_deadheart"
        /\ \E i \in 1..Len(Days) : Days[i]["total_rainfall"] >= 50) =>
        /\ result["risk_score"] = 30
        /\ result["risk_level"] = "low"

ApproxDeadheart ==
    IF op = "_approx_esb_deadheart" THEN result ELSE result["deadheart"]

\* C9 amended: a day with total_rainfall >= 50 among the first 7 days of
\* the forecast list makes approximation mode return 30, low for Dead
\* Heart, alone and inside the forecast combination, even when a high
\* condition holds for the current day.
C9_FirstWeekHeavyRain ==
    ((op = "_approx_esb_deadheart" \/ Returned("calculate_combined_risk_with_forecast"))
        /\ RainDisrupter) =>
        /\ ApproxDeadheart["risk_score"] = 30
        /\ ApproxDeadheart["risk_level"] = "low"

\* heavy rain on day 7 of a longer forecast overrides a high condition
C9_Witness ==
    /\ op = "_approx_esb_deadheart"
    /\ Len(Days) > 7
    /\ Days[7]["total_rainfall"] >= 50
    /\ \A i \in 1..Len(Days) : i # 7 => Days[i]["total_rainfall"] < 50
    /\ ~HumidityDisrupter
    /\ HighHolds
    /\ result["risk_score"] = 30

A == high_A(weather_data, forecast_data, today)
B == high_B(weather_data, forecast_data, today)
C == elevated_C(weather_data, forecast_data, today)
D == elevated_D(weather_data, forecast_data, today)

\* C10: without a disrupter the first of high_A, high_B, elevated_C,
\* elevated_D that holds fixes the result (90, 88, 65, 60), the result is
\* low, 30 when none holds, and the conditions holding after the first
\* add nothing to the score or to risk_factors.
C10_FirstMatchWins ==
    (op = "_approx_esb_deadheart" /\ ~RainDisrupter /\ ~HumidityDisrupter) =>
        /\ Len(result["risk_factors"]) = 1
        /\ A => result["risk_score"] = 90 /\ result["risk_factors"] = <<HighAReason>>
        /\ (~A /\ B) =>
              result["risk_score"] = 88 /\ result["risk_factors"] = <<HighBReason>>
        /\ (~A /\ ~B /\ C) =>
              result["risk_score"] = 65 /\ result["risk_factors"] = <<ElevatedCReason>>
        /\ (~A /\ ~B /\ ~C /\ D) =>
              result["risk_score"] = 60 /\ result["risk_factors"] = <<ElevatedDReason>>
        /\ (~A /\ ~B /\ ~C /\ ~D) =>
              /\ result["risk_score"] = 30
              /\ result["risk_level"] = "low"
              /\ result["risk_factors"] = <<DefaultReason>>

\* high_A holds together with elevated_C and elevated_D and alone decides
C10_Witness ==
    /\ op = "_approx_esb_deadheart"
    /\ ~RainDisrupter /\ ~HumidityDisrupter
    /\ A /\ C /\ D
    /\ result["risk_score"] = 90
    /\ result["risk_factors"] = <<HighAReason>>

CurOrEmpty == IF "current" \in DOMAIN weather_data THEN weather_data["current"] ELSE EmptyDict

\* the field of the reading, 0 when the reading lacks it
CurOrZero(key) == IF key \in DOMAIN CurOrEmpty THEN CurOrEmpty[key] ELSE 0

NoForecastHigh ==
    CurOrZero("temperature") >= 23 /\ CurOrZero("humidity") <= 60 /\ CurOrZero("rainfall_1h") = 0

\* C11: with an empty or absent forecast list _approx_esb_deadheart returns
\* a result: the dry-day count is 0, today's rainfall total is 0, every
\* temperature proxy is the current temperature, no disrupter and no
\* elevated condition holds, and the result is the high one exactly when a
\* high condition holds for the current reading, the low default otherwise.
C11_NoForecastDegrades ==
    (op = "_approx_esb_deadheart" /\ Days = <<>>) =>
        /\ ~IsError(result)
        /\ consecutive_dry(next7_of(forecast_data)) = 0
        /\ total_rain_today(weather_data, forecast_data, today) = 0
        /\ min_temp_today(weather_data, forecast_data, today) = CurOrZero("temperature")
        /\ max_temp_today(weather_data, forecast_data, today) = CurOrZero("temperature")
        /\ temperature_avg_today(weather_data, forecast_data, today) = CurOrZero("temperature")
        /\ ~elevated_C(weather_data, forecast_data, today)
        /\ ~elevated_D(weather_data, forecast_data, today)
        /\ result["risk_factors"] \in {<<HighAReason>>, <<HighBReason>>, <<DefaultReason>>}
        /\ NoForecastHigh => result["risk_score"] = 90 /\ result["risk_level"] = "high"
        /\ ~NoForecastHigh => result["risk_score"] = 30 /\ result["risk_level"] = "low"

\* no forecast at all, dry air at 50% <= morning RH limit, and a high result
C11_Witness ==
    /\ op = "_approx_esb_deadheart"
    /\ "forecast" \notin DOMAIN forecast_data
    /\ HasRequired(weather_data)
    /\ Cur["humidity"] <= 50 /\ Cur["temperature"] >= 35
    /\ result["risk_score"] = 90

Serious == {"high", "critical"}

FirstThree(prefix, recs) ==
    [i \in 1..(IF Len(recs) > 3 THEN 3 ELSE Len(recs)) |-> prefix \o recs[i]]

GeneralTwo ==
    <<"Consider consulting agricultural extension officer",
      "Document symptoms with photos for expert review">>

\* the list of section 4.3 for a combined output r, before the cut to 8
Aggregated(r) ==
    (IF r["deadheart"]["risk_level"] \in Serious
     THEN FirstThree("Dead Heart: ", r["deadheart"]["recommendations"]) ELSE <<>>)
    \o (IF r["tiller"]["risk_level"] \in Serious
        THEN FirstThree("Tiller: ", r["tiller"]["recommendations"]) ELSE <<>>)
    \o (IF r["overall_risk"]["risk_level"] \in Serious THEN GeneralTwo ELSE <<>>)

AtMostEight(list) == [i \in 1..(IF Len(list) > 8 THEN 8 ELSE Len(list)) |-> list[i]]

\* C16: combined_recommendations of calculate_combined_risk is, in this
\* order, the first 3 Dead Heart recommendations (prefixed) if Dead Heart
\* is high or critical, the first 3 Tiller recommendations (prefixed) if
\* Tiller is high or critical, the two general recommendations if the
\* overall level is high or critical, cut to at most 8 entries.
C16_CombinedRecommendations ==
    Returned("calculate_combined_risk") =>
        /\ result["combined_recommendations"] = AtMostEight(Aggregated(result))
        /\ Len(result["combined_recommendations"]) <= 8

\* both diseases high or critical: 3 + 3 + 2 entries, Dead Heart first
C16_Witness ==
    /\ Returned("calculate_combined_risk")
    /\ result["deadheart"]["risk_level"] \in Serious
    /\ result["tiller"]["risk_level"] \in Serious
    /\ Len(result["combined_recommendations"]) = 8
    /\ result["combined_recommendations"][1] =
          "Dead Heart: " \o result["deadheart"]["recommendations"][1]
    /\ result["combined_recommendations"][4] =
          "Tiller: " \o result["tiller"]["recommendations"][1]
    /\ result["combined_recommendations"][8] = GeneralTwo[2]

\* C17: calculate_combined_risk_with_forecast aggregates by the rules of
\* calculate_combined_risk (max score, classify(max), first 3 prefixed
\* recommendations per serious disease, the two general recommendations
\* when the overall level is high or critical, at most 8 entries) and
\* marks the output rule_mode = "approx_free".
C17_SameAggregation ==
    Returned("calculate_combined_risk_with_forecast") =>
        /\ result["overall_risk"]["risk_score"] >= result["deadheart"]["risk_score"]
        /\ result["overall_risk"]["risk_score"] >= result["tiller"]["risk_score"]
        /\ result["overall_risk"]["risk_level"] =
              ThresholdLevel(result["overall_risk"]["risk_score"])
        /\ result["combined_recommendations"] = AtMostEight(Aggregated(result))
        /\ result["deadheart"]["approx_mode"]
        /\ result["rule_mode"] = "approx_free"

Count(cond) == IF cond THEN 1 ELSE 0

\* the recommendations of the Dead Heart rules that fired, in rule order
DeadheartRuleRecs(t, h, r, w, c) ==
    (IF h > 80 THEN <<"Monitor plants closely for early symptoms">> ELSE <<>>)
    \o (IF r > 5 THEN <<"Check for waterlogged areas and improve drainage">> ELSE <<>>)
    \o (IF c \in {"Rain", "Thunderstorm"}
        THEN <<"Avoid field activities until conditions improve">> ELSE <<>>)
    \o (IF h > 80 /\ 25 <= t /\ t <= 30
        THEN <<"Apply preventive fungicide spray immediately">> ELSE <<>>)
    \o (IF r > 5 /\ w < 2 THEN <<"Improve field drainage urgently">> ELSE <<>>)
    \o (IF h < 60 /\ r = 0 /\ c \in {"Clear", "Sunny"}
        THEN <<"Good conditions for field activities">> ELSE <<>>)

\* the recommendations of the Tiller rules that fired, in rule order
TillerRuleRecs(t, h, r, w, c) ==
    (IF h > 85 THEN <<"Critical humidity - monitor plants hourly">>
     ELSE IF h > 75 THEN <<"Increase plant monitoring frequency">> ELSE <<>>)
    \o (IF r > 10 THEN <<"Check for waterlogged areas immediately">> ELSE <<>>)
    \o (IF w > 10 /\ r > 0 THEN <<"Monitor for wind-blown disease spread">> ELSE <<>>)
    \o (IF c = "Thunderstorm"
        THEN <<"Expect increased disease pressure after storm">> ELSE <<>>)
    \o (IF h > 85 /\ 28 <= t /\ t <= 35
        THEN <<"Apply systemic fungicide immediately">> ELSE <<>>)
    \o (IF r > 5 /\ h > 80 THEN <<"Improve drainage and air circulation">> ELSE <<>>)
    \o (IF h < 70 /\ r = 0 THEN <<"Favorable conditions for plant health">> ELSE <<>>)

RuleRecsNow ==
    IF op = "calculate_deadheart_risk"
    THEN DeadheartRuleRecs(Cur["temperature"], Cur["humidity"], Cur["rainfall_3h"],
                           Cur["wind_speed"], Cur["weather_condition"])
    ELSE TillerRuleRecs(Cur["temperature"], Cur["humidity"], Cur["rainfall_3h"],
                        Cur["wind_speed"], Cur["weather_condition"])

BlockSize(disease, level) ==
    IF disease = "deadheart"
    THEN (IF level = "low" THEN 2 ELSE 3)
    ELSE (IF level \in {"critical", "high"} THEN 4 ELSE IF level = "medium" THEN 3 ELSE 2)

\* C18: the recommendations of calculate_deadheart_risk and
\* calculate_tiller_risk are the recommendations of the fired rules in
\* rule order followed by the block of the result's level (Dead Heart
\* 3/3/3/2, Tiller 4/4/3/2 for critical/high/medium/low), so the list is
\* never empty.
C18_RecommendationsShape ==
    (Returned("calculate_deadheart_risk") \/ Returned("calculate_tiller_risk")) =>
        /\ Len(result["recommendations"]) =
              Len(RuleRecsNow) + BlockSize(result["disease"], result["risk_level"])
        /\ SubSeq(result["recommendations"], 1, Len(RuleRecsNow)) = RuleRecsNow
        /\ result["recommendations"] # <<>>

\* a low Dead Heart result without any rule recommendation: the block alone
C18_Witness ==
    /\ Returned("calculate_deadheart_risk")
    /\ result["risk_level"] = "low"
    /\ RuleRecsNow = <<>>
    /\ Len(result["recommendations"]) = 2

MissingRequired ==
    \/ "current" \notin DOMAIN weather_data
    \/ \E key \in {"temperature", "humidity", "rainfall_3h", "wind_speed",
                   "weather_condition"} : key \notin DOMAIN weather_data["current"]

\* C19: calculate_deadheart_risk, calculate_tiller_risk and
\* calculate_combined_risk end with an error, and return no result, when
\* the reading lacks temperature, humidity, rainfall_3h, wind_speed or
\* weather_condition.
C19_MissingFieldRaises ==
    (op \in {"calculate_deadheart_risk", "calculate_tiller_risk", "calculate_combined_risk"}
        /\ MissingRequired) =>
        /\ IsError(result)
        /\ DOMAIN result = {"error"}

\* the reading lacks only humidity and calculate_deadheart_risk raised
C19_Witness ==
    /\ op = "calculate_deadheart_risk"
    /\ "current" \in DOMAIN weather_data
    /\ "humidity" \notin DOMAIN weather_data["current"]
    /\ "temperature" \in DOMAIN weather_data["current"]
    /\ IsError(result)

MissingTempOrHumidity ==
    \/ "current" \notin DOMAIN weather_data
    \/ "temperature" \notin DOMAIN weather_data["current"]
    \/ "humidity" \notin DOMAIN weather_data["current"]

ZeroFilled ==
    [current |->
        [k \in {"temperature", "humidity"} \cup DOMAIN CurOrEmpty |->
            IF k \in DOMAIN CurOrEmpty THEN CurOrEmpty[k] ELSE 0]]

Encoded == op = "_convert_questions_to_features"

\* C12: _convert_questions_to_features returns exactly 15 elements for
\* every disease name and every answers map: the empty map, maps with
\* unknown keys, with more than 15 keys, with values that are no strings.
C12_FifteenFeatures ==
    Encoded =>
        /\ Len(result.features) = 15
        /\ DOMAIN result.features = 1..15

\* a map of more than 15 keys holding values that are no strings
C12_Witness ==
    /\ Encoded
    /\ Cardinality(DOMAIN arg) > 15
    /\ \E k \in DOMAIN arg : arg[k].type # "str"
    /\ "field_notes" \in DOMAIN arg
    /\ Len(result.features) = 15

CanonicalTiller ==
    <<"affected_setts_spreading", "plants_stunted_slow_growth", "honey_dew_sooty_mould",
      "nodal_regions_infested", "tillers_white_yellow", "high_aphid_population",
      "gaps_early_drying", "cane_stunted_reduced_internodes", "no_millable_cane_formation",
      "profuse_lateral_buds", "woolly_matter_deposition", "gradual_yellowing_drying",
      "yellowing_from_tip_margins", "profuse_tillering_3_4_months", "ratoon_crop_present">>

CanonicalDeadHeart ==
    <<"boreholes_plugged_excreta", "central_whorl_dry_withered",
      "affected_shoots_come_off_easily", "affected_shoots_wilting_drying",
      "caterpillars_destroying_shoots", "reduction_millable_canes",
      "bore_holes_base_ground_level", "dirty_white_larvae_violet_stripes",
      "central_shoot_comes_out_easily", "small_holes_stem_near_ground",
      "crop_early_growth_phase", "leaves_drying_tip_margins", "plant_yellow_wilted",
      "rotten_central_shoot_foul_odor", "rotten_straw_colored_dead_heart">>

Canonical == IF predictor.disease_name = "tiller" THEN CanonicalTiller ELSE CanonicalDeadHeart

YesIgnoringCase(v) ==
    /\ v.type = "str"
    /\ Len(v.value) = 3
    /\ v.value[1] \in {"y", "Y"}
    /\ v.value[2] \in {"e", "E"}
    /\ v.value[3] \in {"s", "S"}

OnlyCanonical(answers) ==
    [k \in DOMAIN answers \cap {Canonical[i] : i \in 1..15} |-> answers[k]]

\* C13: element i of the feature vector is 1.0 exactly when the answers
\* map holds, under the i-th identifier of the disease's canonical order,
\* a string equal to "yes" ignoring case, and 0.0 otherwise (identifier
\* missing, another string, a value that is no string); keys that are no
\* canonical identifier have no effect.
C13_FeatureIsYes ==
    Encoded =>
        /\ \A i \in 1..15 :
              result.features[i] =
                  IF Canonical[i] \in DOMAIN arg /\ YesIgnoringCase(arg[Canonical[i]])
                  THEN 1 ELSE 0
        /\ result.features = _convert_questions_to_features(predictor, OnlyCanonical(arg))

\* "YES" counts at one position, a list does not at another, and a key
\* that is no question holds "yes"
C13_Witness ==
    /\ Encoded
    /\ {Canonical[1], Canonical[2], "field_notes"} \subseteq DOMAIN arg
    /\ arg[Canonical[1]] = str(<<"Y", "E", "S">>)
    /\ result.features[1] = 1
    /\ arg[Canonical[2]] = Chars("list", <<"y", "e", "s">>)
    /\ result.features[2] = 0
    /\ arg["field_notes"] = str(<<"y", "e", "s">>)

Threshold ==
    IF "PREDICTION_THRESHOLD" \in DOMAIN env
    THEN float(env["PREDICTION_THRESHOLD"])
    ELSE Fraction(1, 2)

Same(a, b) == a.num * b.den = b.num * a.den

\* C14: _fusion_scoring returns the label disease_name exactly when
\* final_score >= threshold (0.5 unless configured; a score equal to the
\* threshold yields the disease name) and "not_" + disease_name otherwise;
\* there is no third label.
C14_LabelByThreshold ==
    op = "_fusion_scoring" =>
        /\ result.final_label \in {predictor.disease_name, "not_" \o predictor.disease_name}
        /\ result.final_label = predictor.disease_name
              <=> result.final_score.num * Threshold.den
                      >= Threshold.num * result.final_score.den

\* the score equals the default threshold 0.5
C14_Witness ==
    /\ op = "_fusion_scoring"
    /\ "PREDICTION_THRESHOLD" \notin DOMAIN env
    /\ Same(result.final_score, Fraction(1, 2))
    /\ result.final_label = predictor.disease_name

\* w_img * image_confidence + w_tab * tabnet_prob as one fraction
Blend(w_img, w_tab) ==
    Fraction(w_img.num * arg.image_confidence.num * w_tab.den * arg.tabnet_prob.den
                 + w_tab.num * arg.tabnet_prob.num * w_img.den * arg.image_confidence.den,
             w_img.den * arg.image_confidence.den * w_tab.den * arg.tabnet_prob.den)

GivenWeight(key, default) == IF key \in DOMAIN arg THEN arg[key] ELSE default

ConfiguredWeight(key, default) == IF key \in DOMAIN env THEN float(env[key]) ELSE default

\* C15: the fusion score is w_img * image_confidence + w_tab * tabnet_prob,
\* with weights 0.6 and 0.4 unless given and without clamping: by default
\* (0,0) gives 0 and (1,1) gives 1, weights (1,0) give image_confidence,
\* weights (0,1) give tabnet_prob, and _fusion_scoring yields the score of
\* calculate_fusion_score called with the predictor's weights.
C15_FusionScore ==
    /\ op = "calculate_fusion_score" =>
        LET w_img == GivenWeight("w_img", Fraction(3, 5))
            w_tab == GivenWeight("w_tab", Fraction(2, 5))
        IN  /\ Same(result.score, Blend(w_img, w_tab))
            /\ (Same(w_img, Fraction(1, 1)) /\ Same(w_tab, Fraction(0, 1)))
                  => Same(result.score, arg.image_confidence)
            /\ (Same(w_img, Fraction(0, 1)) /\ Same(w_tab, Fraction(1, 1)))
                  => Same(result.score, arg.tabnet_prob)
            /\ ("w_img" \notin DOMAIN arg /\ arg.image_confidence.num = 0
                    /\ arg.tabnet_prob.num = 0)
                  => result.score.num = 0
            /\ ("w_img" \notin DOMAIN arg /\ Same(arg.image_confidence, Fraction(1, 1))
                    /\ Same(arg.tabnet_prob, Fraction(1, 1)))
                  => Same(result.score, Fraction(1, 1))
    /\ op = "_fusion_scoring" =>
        /\ Same(result.final_score,
                Blend(ConfiguredWeight("IMAGE_WEIGHT", Fraction(3, 5)),
                      ConfiguredWeight("TABNET_WEIGHT", Fraction(2, 5))))
        /\ Same(result.final_score,
                calculate_fusion_score(arg.image_confidence, arg.tabnet_prob,
                                       predictor.w_img, predictor.w_tab))

\* default weights, unequal inputs, and a score above 1 that is not clamped
C15_Witness ==
    /\ op = "_fusion_scoring"
    /\ "IMAGE_WEIGHT" \notin DOMAIN env
    /\ "TABNET_WEIGHT" \notin DOMAIN env
    /\ arg.image_confidence = Fraction(3, 2)
    /\ arg.tabnet_prob = Fraction(1, 1)
    /\ Same(result.final_score, Fraction(13, 10))

DaysRain(i) == IF "total_rainfall" \in DOMAIN Days[i] THEN Days[i]["total_rainfall"] ELSE 0

FirstWeekLength == IF Len(Days) > 7 THEN 7 ELSE Len(Days)

\* the lengths of the all-dry prefixes of the first 7 forecast days
DryPrefixes == {k \in 0..FirstWeekLength : \A i \in 1..k : DaysRain(i) < 2}

LongestDryPrefix == CHOOSE k \in DryPrefixes : \A j \in DryPrefixes : j <= k

\* C23: in approximation mode the consecutive-dry-day count is the length
\* of the longest prefix of the first 7 forecast days in which every day
\* has total_rainfall < 2: dry days after a wet day are not counted and
\* the count is between 0 and min(7, number of forecast days).
C23_DryPrefix ==
    op = "_approx_esb_deadheart" =>
        /\ consecutive_dry(next7_of(forecast_data)) = LongestDryPrefix
        /\ consecutive_dry(next7_of(forecast_data)) \in 0..FirstWeekLength
        /\ \A i \in 1..FirstWeekLength :
              DaysRain(i) >= 2 => consecutive_dry(next7_of(forecast_data)) < i

\* a dry day, a wet day, then dry days that are not counted
C23_Witness ==
    /\ op = "_approx_esb_deadheart"
    /\ Len(Days) >= 4
    /\ DaysRain(1) < 2
    /\ DaysRain(2) >= 2
    /\ DaysRain(3) < 2
    /\ consecutive_dry(next7_of(forecast_data)) = 1

\* C24: every result of _approx_esb_deadheart has approx_mode = true, no
\* recommendations, exactly one risk factor and one of the pairs
\* (low,30), (medium,60), (medium,65), (high,88), (high,90); the level is
\* never critical.
C24_ApproxResultShape ==
    op = "_approx_esb_deadheart" =>
        /\ ~IsError(result)
        /\ result["approx_mode"] = TRUE
        /\ result["recommendations"] = <<>>
        /\ Len(result["risk_factors"]) = 1
        /\ <<result["risk_level"], result["risk_score"]>> \in
              {<<"low", 30>>, <<"medium", 60>>, <<"medium", 65>>,
               <<"high", 88>>, <<"high", 90>>}
        /\ result["risk_level"] # "critical"

\* the score the thresholds call critical is reported as high
C24_Witness ==
    /\ op = "_approx_esb_deadheart"
    /\ result["risk_score"] = 90
    /\ result["risk_level"] = "high"
    /\ Len(result["risk_factors"]) = 1

DryFactor == "Dry conditions reduce disease risk"

HasDryFactor ==
    \E i \in 1..Len(result["risk_factors"]) : result["risk_factors"][i] = DryFactor

\* C29: whenever the dry-conditions factor is among the risk factors the
\* level is low: the score of calculate_deadheart_risk is then at most 25,
\* the score of calculate_tiller_risk at most 45.
C29_DryMeansLow ==
    /\ (Returned("calculate_deadheart_risk") /\ HasDryFactor) =>
          /\ result["risk_level"] = "low"
          /\ result["risk_score"] <= 25
    /\ (Returned("calculate_tiller_risk") /\ HasDryFactor) =>
          /\ result["risk_level"] = "low"
          /\ result["risk_score"] <= 45

\* the dry reduction leaves the largest Dead Heart score it can leave
C29_Witness ==
    /\ Returned("calculate_deadheart_risk")
    /\ HasDryFactor
    /\ result["risk_score"] = 25
    /\ result["risk_level"] = "low"

\* the dry reduction leaves the largest Tiller score it can leave
C29_WitnessTiller ==
    /\ Returned("calculate_tiller_risk")
    /\ HasDryFactor
    /\ result["risk_score"] = 45

GeneralEntries ==
    {i \in 1..Len(result["combined_recommendations"]) :
        result["combined_recommendations"][i] \in {GeneralTwo[1], GeneralTwo[2]}}

\* C30: the combined_recommendations of calculate_combined_risk have
\* length 0, 5 or 8: none exactly when neither disease is high or
\* critical, 3 per disease at high or critical, the two general ones
\* exactly when a disease entry is present, and the cut to 8 removes
\* nothing.
C30_CombinedLengths ==
    Returned("calculate_combined_risk") =>
        LET list == result["combined_recommendations"]
            dh == IF result["deadheart"]["risk_level"] \in Serious THEN 3 ELSE 0
            tl == IF result["tiller"]["risk_level"] \in Serious THEN 3 ELSE 0
        IN  /\ Len(list) \in {0, 5, 8}
            /\ Len(list) = 0 <=> dh + tl = 0
            /\ Len(list) = dh + tl + (IF dh + tl > 0 THEN 2 ELSE 0)
            /\ Cardinality(GeneralEntries) = (IF dh + tl > 0 THEN 2 ELSE 0)
            /\ list = Aggregated(result)

\* one disease at high or critical only: 3 + 2 entries
C30_Witness ==
    /\ Returned("calculate_combined_risk")
    /\ result["deadheart"]["risk_level"] \notin Serious
    /\ result["tiller"]["risk_level"] \in Serious
    /\ Len(result["combined_recommendations"]) = 5
    /\ Cardinality(GeneralEntries) = 2

NotAnImage ==
    \/ arg.content_type.type # "str"
    \/ Len(arg.content_type.value) < 6
    \/ SubSeq(arg.content_type.value, 1, 6) # <<"i", "m", "a", "g", "e", "/">>

\* C26: POST /predict/deadheart and POST /predict/tiller answer an upload
\* whose content type does not start with "image/" with status 400 and
\* detail "File must be an image", and run no prediction for it.
C26_NotAnImageIs400 ==
    (op \in {"predict_deadheart", "predict_tiller"} /\ NotAnImage) =>
        /\ result.status_code = 400
        /\ result.detail = "File must be an image"
        /\ predictions = 0

\* C25: in the result of predict, final_label is the disease name exactly
\* when the reported final_score (the score rounded to 3 decimals) is >=
\* the threshold.
C25_LabelMatchesReportedScore ==
    op = "predict" =>
        (result.final_label = predictor.disease_name
            <=> result.final_score.num * Threshold.den >= Threshold.num * result.final_score.den)

DefaultWeights ==
    /\ Same(predictor.w_img, Fraction(3, 5))
    /\ Same(predictor.w_tab, Fraction(2, 5))

\* C28: the weights of an existing predictor are those read when it was
\* constructed and the threshold is the one configured at each call: a
\* change of IMAGE_WEIGHT or TABNET_WEIGHT never changes a later score of
\* the same inputs, a change of PREDICTION_THRESHOLD decides the label of
\* the very next call.
C28_WeightsFixedThresholdLive ==
    /\ DefaultWeights
    /\ [][/\ predictor' = predictor
          /\ (op' = "_fusion_scoring" /\ <<op, result>>' # <<op, result>>) =>
                /\ Same(result'.final_score, Blend(Fraction(3, 5), Fraction(2, 5)))
                /\ result'.final_label = predictor.disease_name
                      <=> result'.final_score.num * float(getenv(env', "PREDICTION_THRESHOLD", <<"0", ".", "5">>)).den
                            >= float(getenv(env', "PREDICTION_THRESHOLD", <<"0", ".", "5">>)).num
                                  * result'.final_score.den
          /\ (op = "_fusion_scoring" /\ op' = "_fusion_scoring") =>
                Same(result'.final_score, result.final_score)]_vars

\* after the weights and the threshold were changed: the score is still
\* the one of the default weights, the label is the one of the new threshold
C28_Witness ==
    /\ op = "_fusion_scoring"
    /\ "IMAGE_WEIGHT" \in DOMAIN env
    /\ ~Same(float(env["IMAGE_WEIGHT"]), predictor.w_img)
    /\ "PREDICTION_THRESHOLD" \in DOMAIN env
    /\ env["PREDICTION_THRESHOLD"] = <<"0", ".", "7">>
    /\ arg.image_confidence # arg.tabnet_prob
    /\ Same(result.final_score, Blend(Fraction(3, 5), Fraction(2, 5)))
    /\ result.final_score.num * 2 >= result.final_score.den
    /\ result.final_label = "not_" \o predictor.disease_name

\* the data is the answer to the request: its endpoint and coordinates
Answers(data, request) ==
    /\ data.kind = (IF request.method = "get_current_weather" THEN "current" ELSE "forecast")
    /\ data.days = request.days
    /\ data.coordinates.lat = request.lat
    /\ data.coordinates.lon = request.lon

\* the cache holds an entry for the request that is younger than cache_duration
HoldsFresh(request) ==
    \E k \in DOMAIN weather_service.cache :
        /\ Answers(weather_service.cache[k].data, request)
        /\ clock - weather_service.cache[k].timestamp < weather_service.cache_duration

\* C27: get_current_weather and get_weather_forecast return the stored
\* data without contacting the provider exactly when the cache holds an
\* entry for the same endpoint and coordinates that is younger than
\* cache_duration; otherwise they fetch, and a successful fetch stores the
\* new data with the current time under that key.  Data returned from the
\* cache is never older than cache_duration, never the data of another
\* key, and a failed fetch leaves the cache unchanged.
C27_CacheThenFetch ==
    [][/\ Len(calls') = Len(calls) + 1 =>
            LET f == calls'[Len(calls')]
            IN  /\ f.pc = "returned_cached" <=> HoldsFresh(f.request)
                /\ f.pc = "returned_cached" =>
                      /\ provider_requests' = provider_requests
                      /\ Answers(f.result, f.request)
                      /\ clock' - f.result.timestamp < weather_service.cache_duration
                      /\ result' = f.result
                /\ f.pc # "returned_cached" =>
                      \/ f.pc = "fetching" /\ provider_requests' = provider_requests + 1
                      \/ /\ f.pc = "raised"
                         /\ weather_service.api_key = <<>>
                         /\ provider_requests' = provider_requests
                /\ weather_service' = weather_service
       /\ \A i \in 1..Len(calls) :
            (Len(calls') = Len(calls) /\ calls[i].pc = "fetching") =>
                /\ calls'[i].pc = "returned_fetched" =>
                      /\ Answers(calls'[i].result, calls[i].request)
                      /\ calls'[i].result.timestamp = clock
                      /\ result' = calls'[i].result
                      /\ \E k \in DOMAIN weather_service'.cache :
                            /\ weather_service'.cache[k] =
                                  [data |-> calls'[i].result, timestamp |-> clock]
                            /\ \A j \in DOMAIN weather_service'.cache \ {k} :
                                  /\ j \in DOMAIN weather_service.cache
                                  /\ weather_service'.cache[j] = weather_service.cache[j]
                            /\ DOMAIN weather_service.cache \subseteq DOMAIN weather_service'.cache
                /\ calls'[i].pc = "raised" => weather_service' = weather_service
       /\ calls' = calls => weather_service' = weather_service]_vars

\* one key asked three times: fetched, answered from the cache a quarter
\* of an hour later, fetched again once the entry is half an hour old
C27_Witness ==
    /\ Len(calls) = 3
    /\ calls[1].request = calls[2].request
    /\ calls[2].request = calls[3].request
    /\ calls[1].pc = "returned_fetched"
    /\ calls[2].pc = "returned_cached"
    /\ calls[2].result = calls[1].result
    /\ calls[3].pc = "returned_fetched"
    /\ calls[3].result.timestamp = calls[1].result.timestamp + 1800
    /\ weather_service.cache_duration = 1800

----------------------------------------------------------------------------
(* Concurrent calls on the process-wide disease_risk_assessor.  A call is  *)
(* a frame of calls: its locals (risk_score, the two list references, the  *)
(* risk level) and its position in the function body.  Lists are objects   *)
(* of heap, referred to by their index, so that two names for one list are *)
(* one object.  One step is one rule block of the function body; steps of  *)
(* different calls interleave in every order.                              *)

MaxConcurrent == 2

\* calculate_deadheart_risk with risk_factors and recommendations created
\* once, for all its calls, and never emptied
deadheart_lists_kept(h) ==
    [risk_factors |-> 1, recommendations |-> 2,
     heap |-> IF Len(h) < 2 THEN <<<<>>, <<>>>> ELSE h]

\* calculate_deadheart_risk: risk_factors = []; recommendations = [] are two
\* new list objects
deadheart_lists(h) ==
    [risk_factors |-> Len(h) + 1, recommendations |-> Len(h) + 2,
     heap |-> h \o <<<<>>, <<>>>>]

\* calculate_tiller_risk with risk_factors and recommendations kept on the
\* assessor and emptied at the start of each call
tiller_lists_reused(h) ==
    [risk_factors |-> 1, recommendations |-> 2,
     heap |-> IF Len(h) < 2 THEN <<<<>>, <<>>>>
              ELSE [h EXCEPT ![1] = <<>>, ![2] = <<>>]]

\* calculate_tiller_risk: risk_factors = []; recommendations = [] are two new
\* list objects
tiller_lists(h) ==
    [risk_factors |-> Len(h) + 1, recommendations |-> Len(h) + 2,
     heap |-> h \o <<<<>>, <<>>>>]

\* the lists a scorer creates when it starts
new_lists(part, h) ==
    IF part = "deadheart" THEN deadheart_lists(h) ELSE tiller_lists(h)

\* all_recommendations = [] and all_recommendations[:8]: one new list object
new_list(h, contents) == [list |-> Len(h) + 1, heap |-> Append(h, contents)]

ScoringRequests ==
    {[method |-> "calculate_deadheart_risk", weather_data |-> WetScenario],
     [method |-> "calculate_deadheart_risk", weather_data |-> HotDryScenario],
     [method |-> "calculate_tiller_risk", weather_data |-> WetScenario],
     [method |-> "calculate_combined_risk", weather_data |-> WetScenario]}

\* the scorer a call runs first
first_part(method) ==
    IF method = "calculate_tiller_risk" THEN "tiller" ELSE "deadheart"

RulePositions ==
    {"temperature", "humidity", "rainfall", "wind", "condition", "combined", "dry"}

next_position(pc) ==
    CASE pc = "temperature" -> "humidity"
      [] pc = "humidity" -> "rainfall"
      [] pc = "rainfall" -> "wind"
      [] pc = "wind" -> "condition"
      [] pc = "condition" -> "combined"
      [] pc = "combined" -> "dry"
      [] pc = "dry" -> "level"

\* one rule block of a scorer, on the call's locals
rule_block(part, pc, acc, current) ==
    LET temperature == current["temperature"]
        humidity == current["humidity"]
        rainfall_3h == current["rainfall_3h"]
        wind_speed == current["wind_speed"]
        weather_condition == current["weather_condition"]
    IN IF part = "deadheart"
       THEN CASE pc = "temperature" -> deadheart_temperature(acc, temperature)
              [] pc = "humidity" -> deadheart_humidity(acc, humidity)
              [] pc = "rainfall" -> deadheart_rainfall(acc, rainfall_3h)
              [] pc = "wind" -> deadheart_wind(acc, wind_speed)
              [] pc = "condition" -> deadheart_condition(acc, weather_condition)
              [] pc = "combined" ->
                    deadheart_combined(acc, temperature, humidity, rainfall_3h, wind_speed)
              [] pc = "dry" ->
                    deadheart_dry(acc, humidity, rainfall_3h, weather_condition)
       ELSE CASE pc = "temperature" -> tiller_temperature(acc, temperature)
              [] pc = "humidity" -> tiller_humidity(acc, humidity)
              [] pc = "rainfall" -> tiller_rainfall(acc, rainfall_3h)
              [] pc = "wind" -> tiller_wind(acc, wind_speed, rainfall_3h)
              [] pc = "condition" -> tiller_condition(acc, weather_condition)
              [] pc = "combined" ->
                    tiller_combined(acc, temperature, humidity, rainfall_3h)
              [] pc = "dry" -> tiller_dry(acc, humidity, rainfall_3h)

level_recommendations(part, risk_level) ==
    IF part = "deadheart" THEN deadheart_level_recommendations(risk_level)
    ELSE tiller_level_recommendations(risk_level)

\* the dictionary a scorer returns, its lists read from the heap
scorer_result(frame, h, now) ==
    [disease |-> frame.part,
     risk_level |-> frame.risk_level,
     risk_score |-> clamp(frame.risk_score),
     risk_color |-> _get_risk_color(frame.risk_level),
     risk_factors |-> h[frame.risk_factors],
     recommendations |-> h[frame.recommendations],
     assessment_time |-> now]

\* the dictionary calculate_combined_risk returns
combined_result(frame, h, now) ==
    LET ms == max_score(frame.deadheart_risk, frame.tiller_risk)
        overall_risk_level == _classify_risk_level(ms)
    IN [overall_risk |-> [risk_level |-> overall_risk_level,
                          risk_score |-> ms,
                          risk_color |-> _get_risk_color(overall_risk_level)],
        deadheart |-> frame.deadheart_risk,
        tiller |-> frame.tiller_risk,
        combined_recommendations |-> Take(h[frame.recommendations], 8),
        assessment_time |-> now,
        weather_summary |->
            [temperature |-> frame.weather_data["current"]["temperature"],
             humidity |-> frame.weather_data["current"]["humidity"],
             rainfall |-> frame.weather_data["current"]["rainfall_3h"],
             conditions |-> frame.weather_data["current"]["weather_description"]]]

InitConcurrent ==
    /\ weather_data = WetScenario
    /\ forecast_data = [forecasts |-> <<>>]
    /\ today = 0
    /\ arg = EmptyDict
    /\ predictor = DiseasePredictor("deadheart", EmptyDict)
    /\ env = EmptyDict
    /\ op = "none"
    /\ result = NoResult
    /\ InitRest

\* a request reaches the assessor: the call reads the fields of its reading
\* and creates its score and its two lists
ScoringCall ==
    /\ Len(calls) < MaxConcurrent
    /\ \E request \in ScoringRequests :
        LET lists == new_lists(first_part(request.method), heap)
        IN /\ calls' = Append(calls,
                  [request |-> request,
                   weather_data |-> request.weather_data,
                   part |-> first_part(request.method),
                   pc |-> "temperature",
                   risk_score |-> 0,
                   risk_factors |-> lists.risk_factors,
                   recommendations |-> lists.recommendations,
                   risk_level |-> "",
                   deadheart_risk |-> NoResult,
                   tiller_risk |-> NoResult,
                   lists |-> <<>>,
                   contents |-> <<>>,
                   result |-> NoResult])
           /\ heap' = lists.heap
    /\ UNCHANGED <<weather_data, forecast_data, today, arg, predictor, env, clock,
                   weather_service, provider_requests, assessor, predictions,
                   op, result>>

\* one rule block of one call
RuleBlock ==
    /\ \E i \in 1..Len(calls) :
        /\ calls[i].pc \in RulePositions
        /\ LET frame == calls[i]
               acc == rule_block(frame.part, frame.pc,
                          [risk_score |-> frame.risk_score,
                           risk_factors |-> heap[frame.risk_factors],
                           recommendations |-> heap[frame.recommendations]],
                          frame.weather_data["current"])
           IN /\ calls' = [calls EXCEPT ![i] =
                             [@ EXCEPT !.risk_score = acc.risk_score,
                                       !.pc = next_position(frame.pc)]]
              /\ heap' = [heap EXCEPT ![frame.risk_factors] = acc.risk_factors,
                                      ![frame.recommendations] = acc.recommendations]
    /\ UNCHANGED <<weather_data, forecast_data, today, arg, predictor, env, clock,
                   weather_service, provider_requests, assessor, predictions,
                   op, result>>

\* risk_level = self._classify_risk_level(risk_score) and the block of
\* recommendations of that level
LevelBlock ==
    /\ \E i \in 1..Len(calls) :
        /\ calls[i].pc = "level"
        /\ LET frame == calls[i]
               risk_level == _classify_risk_level(frame.risk_score)
           IN /\ calls' = [calls EXCEPT ![i] =
                             [@ EXCEPT !.risk_level = risk_level, !.pc = "return"]]
              /\ heap' = [heap EXCEPT ![frame.recommendations] =
                             @ \o level_recommendations(frame.part, risk_level)]
    /\ UNCHANGED <<weather_data, forecast_data, today, arg, predictor, env, clock,
                   weather_service, provider_requests, assessor, predictions,
                   op, result>>

\* a scorer returns its dictionary, to the caller or to calculate_combined_risk,
\* which then runs the next scorer
ScorerReturn ==
    /\ \E i \in 1..Len(calls) :
        /\ calls[i].pc = "return"
        /\ LET frame == calls[i]
               returned == scorer_result(frame, heap, clock)
               held == frame.lists \o <<frame.risk_factors, frame.recommendations>>
               seen == frame.contents \o <<returned.risk_factors, returned.recommendations>>
           IN IF frame.request.method # "calculate_combined_risk"
              THEN /\ calls' = [calls EXCEPT ![i] =
                          [@ EXCEPT !.pc = "returned", !.result = returned,
                                    !.lists = held, !.contents = seen]]
                   /\ op' = frame.request.method
                   /\ result' = returned
                   /\ UNCHANGED heap
              ELSE IF frame.part = "deadheart"
              THEN LET lists == new_lists("tiller", heap)
                   IN /\ calls' = [calls EXCEPT ![i] =
                             [@ EXCEPT !.deadheart_risk = returned,
                                       !.lists = held, !.contents = seen,
                                       !.part = "tiller", !.pc = "temperature",
                                       !.risk_score = 0, !.risk_level = "",
                                       !.risk_factors = lists.risk_factors,
                                       !.recommendations = lists.recommendations]]
                      /\ heap' = lists.heap
                      /\ UNCHANGED <<op, result>>
              ELSE /\ calls' = [calls EXCEPT ![i] =
                          [@ EXCEPT !.tiller_risk = returned,
                                    !.lists = held, !.contents = seen,
                                    !.pc = "aggregate"]]
                   /\ UNCHANGED <<heap, op, result>>
    /\ clock' = clock + 1
    /\ UNCHANGED <<weather_data, forecast_data, today, arg, predictor, env,
                   weather_service, provider_requests, assessor, predictions>>

\* calculate_combined_risk gathers the recommendations of both diseases and
\* the general ones in a list of its own
Aggregate ==
    /\ \E i \in 1..Len(calls) :
        /\ calls[i].pc = "aggregate"
        /\ LET frame == calls[i]
               overall_risk_level ==
                   _classify_risk_level(max_score(frame.deadheart_risk, frame.tiller_risk))
               all_recommendations ==
                   new_list(heap,
                       disease_recommendations(frame.deadheart_risk, frame.tiller_risk)
                       \o general_recommendations(overall_risk_level))
           IN /\ calls' = [calls EXCEPT ![i] =
                             [@ EXCEPT !.recommendations = all_recommendations.list,
                                       !.risk_level = overall_risk_level,
                                       !.pc = "return_combined"]]
              /\ heap' = all_recommendations.heap
    /\ UNCHANGED <<weather_data, forecast_data, today, arg, predictor, env, clock,
                   weather_service, provider_requests, assessor, predictions,
                   op, result>>

\* calculate_combined_risk returns; all_recommendations[:8] is a new list
CombinedReturn ==
    /\ \E i \in 1..Len(calls) :
        /\ calls[i].pc = "return_combined"
        /\ LET frame == calls[i]
               returned == combined_result(frame, heap, clock)
               sliced == new_list(heap, returned.combined_recommendations)
           IN /\ calls' = [calls EXCEPT ![i] =
                             [@ EXCEPT !.pc = "returned", !.result = returned,
                                       !.lists = frame.lists \o <<sliced.list>>,
                                       !.contents = frame.contents
                                           \o <<returned.combined_recommendations>>]]
              /\ heap' = sliced.heap
              /\ op' = frame.request.method
              /\ result' = returned
    /\ clock' = clock + 1
    /\ UNCHANGED <<weather_data, forecast_data, today, arg, predictor, env,
                   weather_service, provider_requests, assessor, predictions>>

NextConcurrent ==
    \/ ScoringCall
    \/ RuleBlock
    \/ LevelBlock
    \/ ScorerReturn
    \/ Aggregate
    \/ CombinedReturn

SpecConcurrent == InitConcurrent /\ [][NextConcurrent]_vars

----------------------------------------------------------------------------
(* Claims about repeated and concurrent scoring calls *)

\* what a scorer's dictionary says apart from its assessment_time
Scored(r) ==
    [disease |-> r.disease, risk_level |-> r.risk_level,
     risk_score |-> r.risk_score, risk_color |-> r.risk_color,
     risk_factors |-> r.risk_factors, recommendations |-> r.recommendations]

\* what a call's result says apart from every assessment_time in it
Assessed(frame) ==
    IF frame.request.method = "calculate_combined_risk"
    THEN [overall_risk |-> frame.result.overall_risk,
          deadheart |-> Scored(frame.result.deadheart),
          tiller |-> Scored(frame.result.tiller),
          combined_recommendations |-> frame.result.combined_recommendations,
          weather_summary |-> frame.result.weather_summary]
    ELSE Scored(frame.result)

\* the result of the request when its call runs alone
Alone(request) ==
    CASE request.method = "calculate_deadheart_risk" ->
            calculate_deadheart_risk(request.weather_data)
      [] request.method = "calculate_tiller_risk" ->
            calculate_tiller_risk(request.weather_data)
      [] request.method = "calculate_combined_risk" ->
            calculate_combined_risk(request.weather_data)

ReturnedCalls == {i \in 1..Len(calls) : calls[i].pc = "returned"}

ListsOf(i) == {calls[i].lists[k] : k \in 1..Len(calls[i].lists)}

\* C21: two calls of calculate_deadheart_risk, of calculate_tiller_risk or of
\* calculate_combined_risk with identical readings return identical
\* risk_score, risk_level, risk_color, risk_factors and recommendations;
\* only assessment_time may differ.
C21_SameReadingSameResult ==
    \A i \in ReturnedCalls : \A j \in ReturnedCalls :
        calls[i].request = calls[j].request => Assessed(calls[i]) = Assessed(calls[j])

\* two calls of calculate_combined_risk with one reading have returned, at
\* different times
C21_Witness ==
    /\ ReturnedCalls = {1, 2}
    /\ calls[1].request = calls[2].request
    /\ calls[1].request.method = "calculate_combined_risk"
    /\ calls[1].result.assessment_time # calls[2].result.assessment_time
    /\ calls[1].result.deadheart.assessment_time
           # calls[2].result.deadheart.assessment_time
    /\ calls[1].result.combined_recommendations # <<>>

\* two calls of calculate_deadheart_risk with one reading have returned, at
\* different times
C21_WitnessDeadheart ==
    /\ ReturnedCalls = {1, 2}
    /\ calls[1].request = calls[2].request
    /\ calls[1].request.method = "calculate_deadheart_risk"
    /\ calls[1].result.assessment_time # calls[2].result.assessment_time
    /\ calls[1].result.risk_factors # <<>>

\* C22: the scoring operations on the process-wide disease_risk_assessor share
\* no mutable state: under every interleaving of concurrent calls each call
\* returns the score, level, factors and recommendations it returns when run
\* alone, the lists of each result are new objects that no other call's
\* result holds and that nobody writes after the return, and the assessor's
\* risk_thresholds and the callers' readings are left unchanged.
C22_NoSharedState ==
    /\ \A i \in ReturnedCalls :
        /\ Assessed(calls[i]) = Alone(calls[i].request)
        /\ Cardinality(ListsOf(i)) = Len(calls[i].lists)
        /\ \A k \in 1..Len(calls[i].lists) :
               heap[calls[i].lists[k]] = calls[i].contents[k]
    /\ \A i \in ReturnedCalls : \A j \in ReturnedCalls :
        i # j => ListsOf(i) \cap ListsOf(j) = {}
    /\ assessor.risk_thresholds = risk_thresholds
    /\ \A i \in 1..Len(calls) : calls[i].weather_data = calls[i].request.weather_data

\* the second call started after the first and returned before it: the two
\* calls overlapped, and both have returned factors and recommendations
C22_Witness ==
    /\ ReturnedCalls = {1, 2}
    /\ calls[2].result.assessment_time < calls[1].result.assessment_time
    /\ calls[1].request.method = "calculate_combined_risk"
    /\ calls[2].request.method = "calculate_deadheart_risk"
    /\ calls[2].result.risk_factors # <<>>
    /\ calls[1].result.deadheart.risk_factors # <<>>

====
